---- MODULE Spec2Model ----
(***************************************************************************)
(* napari octree levels: OctreeLevelInfo (the geometry of one level of the *)
(* multiresolution pyramid) and OctreeLevel (the lazily filled mapping     *)
(* from tile coordinates to OctreeChunk objects), modelled from            *)
(* napari/layers/image/experimental/octree_level.py.                       *)
(*                                                                         *)
(* Spec      one OctreeLevel and serialized get_chunk calls on it.         *)
(* SpecChunk the first chunk created on a fresh OctreeLevel, over a wider  *)
(*           range of images, tile sizes and tile coordinates.             *)
(* SpecPyramid  the OctreeLevels of one pyramid, from full resolution to  *)
(*           the first single-tile level, and get_chunk calls on them.     *)
(* SpecLog   the OctreeLevels of one pyramid, get_chunk calls on them and   *)
(*           log_levels calls on the list of them.                         *)
(* SpecThreads  threads, each in one get_chunk call on the same level,     *)
(*           interleaved statement by statement or serialized by a mutex.  *)
(* SpecFaulty  one OctreeLevel over a data source whose slicing raises,    *)
(*           always or for a while, and serialized get_chunk calls on it.  *)
(* SpecOrders  two equal fresh OctreeLevels, each with its own sequence of *)
(*           get_chunk calls.                                              *)
(* SpecFamily  two adjacent OctreeLevels of one pyramid: a tile of the      *)
(*           coarser one is created, then its children in the finer one.   *)
(* SpecInfo  OctreeLevelInfo built for level_index 0, 1, 2, ... of one     *)
(*           OctreeMetadata.                                               *)
(*                                                                         *)
(* and utilities of the layers the octree belongs to:                      *)
(*                                                                         *)
(* SpecContrast  IntensityVisualizationMixin (layers/intensity_mixin.py): *)
(*           assignments to contrast_limits and contrast_limits_range.     *)
(* SpecCount  inc_name_count (utils/naming.py) applied to a name again and *)
(*           again.                                                        *)
(* SpecUnique  force_name_unique (utils/naming.py), one step per call      *)
(*           frame of its recursion.                                       *)
(* SpecChain  TransformChain (layers/transforms.py) of ScaleTranslate      *)
(*           transforms: simplified, and calls of both, in float64.        *)
(* SpecCompose  ScaleTranslate (layers/transforms.py): compose of two and  *)
(*           three transforms and with the identity, and calls.            *)
(***************************************************************************)
EXTENDS Integers, Sequences, FiniteSets, TLC

\* ------------------------------------------------------------------ bounds
\* Spec: base_shape is drawn from (1..MaxHeight) x (1..MaxWidth), tile_size
\* from 1..MaxTile, level_index from 0..MaxLevel; get_chunk is called with
\* row in -1..MaxRow and col in -1..MaxCol.
MaxHeight == 2
MaxWidth == 2
MaxTile == 2
MaxLevel == 1
MaxRow == 2
MaxCol == 2
\* SpecInfo: base_shape dimensions from 1..MaxBase plus the sizes of the
\* documented examples, tile_size from 1..MaxInfoTile plus the documented
\* ones, level_index from 0..MaxInfoLevel.
MaxBase == 9
MaxInfoTile == 3
MaxInfoLevel == 9
\* SpecChunk: base_shape dimensions from 1..MaxChunkBase plus the documented
\* sizes (and one width past 2^24), tile_size from 1..MaxChunkTile plus the
\* documented one, level_index from 0..MaxChunkLevel; the tile asked for has
\* row in -1..MaxChunkRow and col in -1..MaxChunkCol (or one past 2^24).
MaxChunkBase == 5
MaxChunkTile == 3
MaxChunkLevel == 1
MaxChunkRow == 2
MaxChunkCol == 2
\* SpecPyramid: base_shape from (1..MaxPyrHeight) x (1..MaxPyrWidth),
\* tile_size from 1..MaxPyrTile.
MaxPyrHeight == 2
MaxPyrWidth == 1
MaxPyrTile == 1
\* SpecLog: base_shape from (1..MaxLogHeight) x {1}, tile_size 1; log_levels
\* is called with start_level in 0..MaxStartLevel.
MaxLogHeight == 2
MaxStartLevel == 1
\* SpecFaulty: base_shape from (1..MaxFaultyHeight) x {1}, tile_size 1,
\* level_index 0; get_chunk is called as in Spec.
MaxFaultyHeight == 2
\* SpecOrders: each of the two levels gets at most MaxOrderCalls create=True
\* calls.
MaxOrderCalls == 3
\* SpecFamily: base_shape dimensions from 1..MaxFamilyBase (and one width past
\* 2^24), tile_size from 1..MaxFamilyTile, the finer level's level_index from
\* 0..MaxFamilyLevel; the parent tile has row in 0..MaxFamilyRow and col in
\* 0..MaxFamilyCol (or 2^23).
MaxFamilyBase == 4
MaxFamilyTile == 2
MaxFamilyLevel == 1
MaxFamilyRow == 1
MaxFamilyCol == 1
\* SpecThreads: MaxThreads threads call get_chunk on a level that is one
\* column of MaxThreadRow + 1 tiles, each with row in -1..MaxThreadRow and
\* col 0.
MaxThreads == 2
MaxThreadRow == 1

\* SpecContrast: the contrast limits and their range are pairs (lo, hi) of
\* numbers with 0 <= lo <= hi <= MaxContrast.
MaxContrast == 3

\* SpecCount: the names have at most MaxNameLen characters, and
\* inc_name_count is applied at most MaxIncs times to each.
MaxNameLen == 3
MaxIncs == 2

\* SpecUnique: the name has at most MaxUniqueLen characters, and the list of
\* names holds some of its first MaxCollisions successors. The interpreter
\* allows RecursionLimit frames (sys.getrecursionlimit() of CPython).
MaxUniqueLen == 2
MaxCollisions == 3
RecursionLimit == 1000

\* SpecChain: a TransformChain holds at most MaxChainLen transforms.
MaxChainLen == 3

VARIABLES
    level,    \* the OctreeLevel object: slice_id, data, info, _tiles
    heap,     \* per location, how many OctreeChunk objects were constructed
    call,     \* the arguments of the last get_chunk call (NoCall before)
    ret,      \* what that call returned
    exc,      \* the exception that call raised ("none" when it returned)
    handed,   \* per key, the chunk the first successful create=True call returned
    failed,   \* the keys for which a get_chunk call raised
    meta,     \* the OctreeMetadata shared by the levels and infos
    infos,    \* SpecInfo: OctreeLevelInfo(meta, k) for k = 0 .. Len(infos)-1
    twin,     \* SpecInfo: the last OctreeLevelInfo built again, from an equal meta
    levels,   \* SpecPyramid: the OctreeLevel objects of one pyramid, finest first
    heaps,    \* SpecPyramid: the heap of each of them
    called,   \* SpecPyramid: which level the last get_chunk call was made on
    logged,   \* SpecLog: the last log_levels call and the records it emitted
    asked,    \* SpecOrders: per level, the keys of its create=True calls, in order
    serialized, \* SpecThreads: whether the callers hold a mutex around get_chunk
    lock,     \* SpecThreads: the thread holding that mutex, 0 when it is free
    pc,       \* SpecThreads: per thread, where in get_chunk it is
    frame,    \* SpecThreads: per thread, the arguments and locals of its call
    tiles0,   \* SpecThreads: the mapping as it was when the threads started
    mixin,    \* SpecContrast: the IntensityVisualizationMixin object
    assigned, \* SpecContrast: the last property assignment and whether one raised
    original, \* SpecCount, SpecUnique: the name the caller started from
    name,     \* SpecCount, SpecUnique: the name now (of the innermost call)
    incs,     \* SpecCount, SpecUnique: how many inc_name_count calls were made
    names,    \* SpecUnique: the list of names in use
    depth,    \* SpecUnique: how many force_name_unique calls are active
    unique,   \* SpecUnique: what force_name_unique returned or raised
    chain,    \* SpecChain: the transforms of the TransformChain, in list order
    coords,   \* SpecChain: the coordinate vector the transforms are called on
    simple,   \* SpecChain: what chain.simplified gave
    applied   \* SpecChain: what chain(coords) and chain.simplified(coords) gave

pyramidVars == <<levels, heaps, called, logged, asked>>

threadVars == <<serialized, lock, pc, frame, tiles0>>

mixinVars == <<mixin, assigned>>

\* The state of the utilities outside the octree.
namingVars == <<original, name, incs, names, depth, unique>>

transformVars == <<chain, coords, simple, applied>>

utilVars == <<mixinVars, namingVars, transformVars>>

vars == <<level, heap, call, ret, exc, handed, failed, meta, infos, twin, levels, heaps, called, logged, asked,
          serialized, lock, pc, frame, tiles0, utilVars>>

\* ------------------------------------------------------- python primitives
\* Python's None.
None == [type |-> "NoneType"]

\* a / b on ints: the exact quotient, kept as a fraction (b > 0).
TrueDiv(a, b) == [num |-> a, den |-> b]

\* int(q): truncation toward zero.
int(q) == IF q.num >= 0 THEN q.num \div q.den ELSE -((-q.num) \div q.den)

\* math.ceil(q): the least integer >= q.
ceil(q) == -((-q.num) \div q.den)

\* b ** e for e >= 0.
RECURSIVE Pow(_, _)
Pow(b, e) == IF e = 0 THEN 1 ELSE b * Pow(b, e - 1)

\* slice(start, stop).indices(n) with step 1: the half-open range <<lo, hi>>
\* that data[start:stop] reads on an axis of length n (clipped, maybe empty).
SliceIndices(start, stop, n) ==
    LET clip(i) == IF i < 0 THEN (IF i + n < 0 THEN 0 ELSE i + n)
                   ELSE (IF i > n THEN n ELSE i)
        lo == clip(start)
        hi == clip(stop)
    IN <<lo, IF hi < lo THEN lo ELSE hi>>

\* 2^24: np.float32 has a 24-bit significand, so every int below it is exact.
Float32Exact == 16777216

\* The spacing of float32 values around n >= 0: 1 below 2^24, doubling with
\* every further bit.
RECURSIVE Float32Spacing(_)
Float32Spacing(n) == IF n < Float32Exact THEN 1 ELSE 2 * Float32Spacing(n \div 2)

\* np.float32(n) for an int n: exact below 2^24, otherwise rounded to the
\* nearest multiple of the spacing, ties to the even multiple.
Float32(n) ==
    LET a == IF n < 0 THEN -n ELSE n
        u == Float32Spacing(a)
        q == a \div u
        r == a % u
        m == IF 2 * r < u THEN q
             ELSE IF 2 * r > u THEN q + 1
             ELSE IF q % 2 = 0 THEN q ELSE q + 1
    IN IF n < 0 THEN -(m * u) ELSE m * u

\* ---------------------------------------------------------- OctreeLevelInfo
\* The variant a level numbered from 1 would give: scale = 2 ** (level_index + 1).
OctreeLevelInfoScaleOffByOne(m, level_index) ==
    LET scale == Pow(2, level_index + 1)
        base == m.base_shape
        scaled_size == m.tile_size * scale
        rows == ceil(TrueDiv(base[1], scaled_size))
        cols == ceil(TrueDiv(base[2], scaled_size))
    IN [meta |-> m, level_index |-> level_index, scale |-> scale,
        image_shape |-> <<int(TrueDiv(base[1], scale)), int(TrueDiv(base[2], scale))>>,
        rows |-> rows, cols |-> cols,
        shape_in_tiles |-> <<rows, cols>>, num_tiles |-> rows * cols]

\* The variant that counts only whole tiles: floor division for rows and cols.
OctreeLevelInfoFloorGrid(m, level_index) ==
    LET scale == Pow(2, level_index)
        base == m.base_shape
        scaled_size == m.tile_size * scale
        rows == int(TrueDiv(base[1], scaled_size))
        cols == int(TrueDiv(base[2], scaled_size))
    IN [meta |-> m, level_index |-> level_index, scale |-> scale,
        image_shape |-> <<int(TrueDiv(base[1], scale)), int(TrueDiv(base[2], scale))>>,
        rows |-> rows, cols |-> cols,
        shape_in_tiles |-> <<rows, cols>>, num_tiles |-> rows * cols]

\* The variant whose grid ignores the scale: rows and cols from tile_size alone.
OctreeLevelInfoUnscaledGrid(m, level_index) ==
    LET scale == Pow(2, level_index)
        base == m.base_shape
        scaled_size == m.tile_size
        rows == ceil(TrueDiv(base[1], scaled_size))
        cols == ceil(TrueDiv(base[2], scaled_size))
    IN [meta |-> m, level_index |-> level_index, scale |-> scale,
        image_shape |-> <<int(TrueDiv(base[1], scale)), int(TrueDiv(base[2], scale))>>,
        rows |-> rows, cols |-> cols,
        shape_in_tiles |-> <<rows, cols>>, num_tiles |-> rows * cols]

\* The variant that rounds image_shape up instead of truncating it.
OctreeLevelInfoCeilShape(m, level_index) ==
    LET scale == Pow(2, level_index)
        base == m.base_shape
        scaled_size == m.tile_size * scale
        rows == ceil(TrueDiv(base[1], scaled_size))
        cols == ceil(TrueDiv(base[2], scaled_size))
    IN [meta |-> m, level_index |-> level_index, scale |-> scale,
        image_shape |-> <<ceil(TrueDiv(base[1], scale)), ceil(TrueDiv(base[2], scale))>>,
        rows |-> rows, cols |-> cols,
        shape_in_tiles |-> <<rows, cols>>, num_tiles |-> rows * cols]

\* The variant that rounds the grid to the nearest count (ties to the even
\* one, as round() does) instead of up.
OctreeLevelInfoRoundedGrid(m, level_index) ==
    LET scale == Pow(2, level_index)
        base == m.base_shape
        scaled_size == m.tile_size * scale
        round(q) == LET n == q.num \div q.den
                        r == q.num % q.den
                    IN IF 2 * r < q.den THEN n
                       ELSE IF 2 * r > q.den THEN n + 1
                       ELSE IF n % 2 = 0 THEN n ELSE n + 1
        rows == round(TrueDiv(base[1], scaled_size))
        cols == round(TrueDiv(base[2], scaled_size))
    IN [meta |-> m, level_index |-> level_index, scale |-> scale,
        image_shape |-> <<int(TrueDiv(base[1], scale)), int(TrueDiv(base[2], scale))>>,
        rows |-> rows, cols |-> cols,
        shape_in_tiles |-> <<rows, cols>>, num_tiles |-> rows * cols]

\* The variant that keeps its scaled tile size in the meta it was given.
OctreeLevelInfoRescalingMeta(m, level_index) ==
    LET scale == Pow(2, level_index)
        base == m.base_shape
        scaled_size == m.tile_size * scale
        rows == ceil(TrueDiv(base[1], scaled_size))
        cols == ceil(TrueDiv(base[2], scaled_size))
    IN [meta |-> [m EXCEPT !.tile_size = scaled_size],
        level_index |-> level_index, scale |-> scale,
        image_shape |-> <<int(TrueDiv(base[1], scale)), int(TrueDiv(base[2], scale))>>,
        rows |-> rows, cols |-> cols,
        shape_in_tiles |-> <<rows, cols>>, num_tiles |-> rows * cols]

\* OctreeLevelInfo.__init__(meta, level_index).
OctreeLevelInfo(m, level_index) ==
    LET scale == Pow(2, level_index)
        base == m.base_shape
        image_shape == <<int(TrueDiv(base[1], scale)), int(TrueDiv(base[2], scale))>>
        tile_size == m.tile_size
        scaled_size == tile_size * scale
        rows == ceil(TrueDiv(base[1], scaled_size))
        cols == ceil(TrueDiv(base[2], scaled_size))
    IN [meta |-> m, level_index |-> level_index, scale |-> scale,
        image_shape |-> image_shape,
        rows |-> rows, cols |-> cols,
        shape_in_tiles |-> <<rows, cols>>, num_tiles |-> rows * cols]

\* ------------------------------------------------------------ value objects
\* OctreeLocation(layer_ref, slice_id, level_index, row, col).
OctreeLocation(layer_ref, slice_id, level_index, row, col) ==
    [layer_ref |-> layer_ref, slice_id |-> slice_id, level_index |-> level_index,
     row |-> row, col |-> col]

\* OctreeChunkGeom(pos, scale).
OctreeChunkGeom(pos, scale) == [pos |-> pos, scale |-> scale]

\* OctreeChunk(data, location, geom): a new object. Two chunks are the same
\* object iff they are equal here: serial numbers the constructions made for
\* one location, so no two constructions give equal records.
OctreeChunk(data, location, geom, serial) ==
    [type |-> "OctreeChunk", data |-> data, location |-> location, geom |-> geom,
     serial |-> serial]

\* ------------------------------------------------------------- OctreeLevel
\* OctreeLevel.__init__(slice_id, data, meta, level_index).
OctreeLevel(slice_id, data, m, level_index) ==
    [slice_id |-> slice_id, data |-> data,
     info |-> OctreeLevelInfo(m, level_index), _tiles |-> <<>>]

\* slice(start, stop) and slice(None).
Slice(start, stop) == [kind |-> "range", start |-> start, stop |-> stop]
SliceNone == [kind |-> "all"]

\* The half-open range a slice reads on an axis of length n.
SliceRange(sl, n) ==
    IF sl.kind = "all" THEN <<0, n>> ELSE SliceIndices(sl.start, sl.stop, n)

\* data[array_slice] for a tuple of slices: the error of a source that cannot
\* be read now (a data record with a raises field); IndexError when the tuple
\* is longer than the array has axes; otherwise a view of the clipped ranges,
\* the axes past the tuple kept whole.
GetItem(data, array_slice) ==
    LET shape == data.shape
        ranges == [i \in 1..Len(shape) |->
                      IF i <= Len(array_slice)
                      THEN SliceRange(array_slice[i], shape[i])
                      ELSE <<0, shape[i]>>]
    IN IF "raises" \in DOMAIN data
       THEN [exc |-> data.raises]
       ELSE IF Len(array_slice) > Len(shape)
       THEN [exc |-> "IndexError"]
       ELSE [exc |-> "none",
             value |-> [ranges |-> ranges,
                        shape |-> [i \in 1..Len(shape) |-> ranges[i][2] - ranges[i][1]],
                        nslices |-> Len(array_slice)]]

\* _get_data with the tile rectangle taken in level-0 pixels: tile_size * scale.
_get_data_scaled(self, row, col) ==
    LET tile_size == self.info.meta.tile_size * self.info.scale
        array_slice == <<Slice(row * tile_size, (row + 1) * tile_size),
                         Slice(col * tile_size, (col + 1) * tile_size)>>
    IN GetItem(self.data,
               IF Len(self.data.shape) = 3 THEN array_slice \o <<SliceNone>>
               ELSE array_slice)

\* _get_data that does not let the last tile be clipped: the stop of each
\* slice is what the data's extent allows only when a whole tile fits.
_get_data_whole_tiles(self, row, col) ==
    LET tile_size == self.info.meta.tile_size
        fit(i, n) == IF (i + 1) * tile_size > n THEN Slice(i * tile_size, i * tile_size)
                     ELSE Slice(i * tile_size, (i + 1) * tile_size)
        array_slice == <<fit(row, self.data.shape[1]), fit(col, self.data.shape[2])>>
    IN GetItem(self.data,
               IF Len(self.data.shape) = 3 THEN array_slice \o <<SliceNone>>
               ELSE array_slice)

\* _get_data that adds the colour slice whatever the data's ndim.
_get_data_always_colors(self, row, col) ==
    LET tile_size == self.info.meta.tile_size
        array_slice == <<Slice(row * tile_size, (row + 1) * tile_size),
                         Slice(col * tile_size, (col + 1) * tile_size)>>
    IN GetItem(self.data, array_slice \o <<SliceNone>>)

\* OctreeLevel._get_data(row, col).
_get_data(self, row, col) ==
    LET tile_size == self.info.meta.tile_size
        array_slice == <<Slice(row * tile_size, (row + 1) * tile_size),
                         Slice(col * tile_size, (col + 1) * tile_size)>>
    IN GetItem(self.data,
               IF Len(self.data.shape) = 3 THEN array_slice \o <<SliceNone>>
               ELSE array_slice)

\* _create_chunk with the position's x taken from the row and y from the column.
_create_chunk_pos_swapped(self, hp, row, col) ==
    LET level_index == self.info.level_index
        layer_ref == self.info.meta.layer_ref
        location == OctreeLocation(layer_ref, self.slice_id, level_index, row, col)
        scale == self.info.scale
        scale_vec == <<Float32(scale), Float32(scale)>>
        tile_size == self.info.meta.tile_size
        scaled_size == tile_size * scale
        pos == <<Float32(row * scaled_size), Float32(col * scaled_size)>>
        geom == OctreeChunkGeom(pos, scale_vec)
        data == _get_data(self, row, col)
        key == <<row, col>>
        serial == IF key \in DOMAIN hp THEN hp[key] + 1 ELSE 1
    IN IF data.exc # "none"
       THEN [exc |-> data.exc, heap |-> hp]
       ELSE [exc |-> "none",
             value |-> OctreeChunk(data.value, location, geom, serial),
             heap |-> [k \in DOMAIN hp \cup {key} |->
                          IF k = key THEN serial ELSE hp[k]]]

\* _create_chunk with row and col exchanged in the location.
_create_chunk_location_swapped(self, hp, row, col) ==
    LET level_index == self.info.level_index
        layer_ref == self.info.meta.layer_ref
        location == OctreeLocation(layer_ref, self.slice_id, level_index, col, row)
        scale == self.info.scale
        scale_vec == <<Float32(scale), Float32(scale)>>
        tile_size == self.info.meta.tile_size
        scaled_size == tile_size * scale
        pos == <<Float32(col * scaled_size), Float32(row * scaled_size)>>
        geom == OctreeChunkGeom(pos, scale_vec)
        data == _get_data(self, row, col)
        key == <<row, col>>
        serial == IF key \in DOMAIN hp THEN hp[key] + 1 ELSE 1
    IN IF data.exc # "none"
       THEN [exc |-> data.exc, heap |-> hp]
       ELSE [exc |-> "none",
             value |-> OctreeChunk(data.value, location, geom, serial),
             heap |-> [k \in DOMAIN hp \cup {key} |->
                          IF k = key THEN serial ELSE hp[k]]]

\* _create_chunk with the slice id written where the level index belongs.
_create_chunk_location_no_level(self, hp, row, col) ==
    LET level_index == self.info.level_index
        layer_ref == self.info.meta.layer_ref
        location == OctreeLocation(layer_ref, self.slice_id, self.slice_id, row, col)
        scale == self.info.scale
        scale_vec == <<Float32(scale), Float32(scale)>>
        tile_size == self.info.meta.tile_size
        scaled_size == tile_size * scale
        pos == <<Float32(col * scaled_size), Float32(row * scaled_size)>>
        geom == OctreeChunkGeom(pos, scale_vec)
        data == _get_data(self, row, col)
        key == <<row, col>>
        serial == IF key \in DOMAIN hp THEN hp[key] + 1 ELSE 1
    IN IF data.exc # "none"
       THEN [exc |-> data.exc, heap |-> hp]
       ELSE [exc |-> "none",
             value |-> OctreeChunk(data.value, location, geom, serial),
             heap |-> [k \in DOMAIN hp \cup {key} |->
                          IF k = key THEN serial ELSE hp[k]]]

\* _create_chunk that numbers its chunks: the slice id in the location is the
\* number of chunks the level held when this one was created.
_create_chunk_numbered(self, hp, row, col) ==
    LET level_index == self.info.level_index
        layer_ref == self.info.meta.layer_ref
        location == OctreeLocation(layer_ref, Cardinality(DOMAIN self._tiles),
                                   level_index, row, col)
        scale == self.info.scale
        scale_vec == <<Float32(scale), Float32(scale)>>
        tile_size == self.info.meta.tile_size
        scaled_size == tile_size * scale
        pos == <<Float32(col * scaled_size), Float32(row * scaled_size)>>
        geom == OctreeChunkGeom(pos, scale_vec)
        data == _get_data(self, row, col)
        key == <<row, col>>
        serial == IF key \in DOMAIN hp THEN hp[key] + 1 ELSE 1
    IN IF data.exc # "none"
       THEN [exc |-> data.exc, heap |-> hp]
       ELSE [exc |-> "none",
             value |-> OctreeChunk(data.value, location, geom, serial),
             heap |-> [k \in DOMAIN hp \cup {key} |->
                          IF k = key THEN serial ELSE hp[k]]]

\* _create_chunk that anchors the chunk at its far corner: the position of
\* the next tile down and right.
_create_chunk_pos_far_corner(self, hp, row, col) ==
    LET level_index == self.info.level_index
        layer_ref == self.info.meta.layer_ref
        location == OctreeLocation(layer_ref, self.slice_id, level_index, row, col)
        scale == self.info.scale
        scale_vec == <<Float32(scale), Float32(scale)>>
        tile_size == self.info.meta.tile_size
        scaled_size == tile_size * scale
        pos == <<Float32((col + 1) * scaled_size), Float32((row + 1) * scaled_size)>>
        geom == OctreeChunkGeom(pos, scale_vec)
        data == _get_data(self, row, col)
        key == <<row, col>>
        serial == IF key \in DOMAIN hp THEN hp[key] + 1 ELSE 1
    IN IF data.exc # "none"
       THEN [exc |-> data.exc, heap |-> hp]
       ELSE [exc |-> "none",
             value |-> OctreeChunk(data.value, location, geom, serial),
             heap |-> [k \in DOMAIN hp \cup {key} |->
                          IF k = key THEN serial ELSE hp[k]]]

\* _create_chunk that places the chunk in its own level's pixels: the
\* position is not multiplied by the scale.
_create_chunk_pos_unscaled(self, hp, row, col) ==
    LET level_index == self.info.level_index
        layer_ref == self.info.meta.layer_ref
        location == OctreeLocation(layer_ref, self.slice_id, level_index, row, col)
        scale == self.info.scale
        scale_vec == <<Float32(scale), Float32(scale)>>
        tile_size == self.info.meta.tile_size
        pos == <<Float32(col * tile_size), Float32(row * tile_size)>>
        geom == OctreeChunkGeom(pos, scale_vec)
        data == _get_data(self, row, col)
        key == <<row, col>>
        serial == IF key \in DOMAIN hp THEN hp[key] + 1 ELSE 1
    IN IF data.exc # "none"
       THEN [exc |-> data.exc, heap |-> hp]
       ELSE [exc |-> "none",
             value |-> OctreeChunk(data.value, location, geom, serial),
             heap |-> [k \in DOMAIN hp \cup {key} |->
                          IF k = key THEN serial ELSE hp[k]]]

\* OctreeLevel._create_chunk(row, col): the new chunk and the heap after it.
_create_chunk(self, hp, row, col) ==
    LET level_index == self.info.level_index
        layer_ref == self.info.meta.layer_ref
        location == OctreeLocation(layer_ref, self.slice_id, level_index, row, col)
        scale == self.info.scale
        scale_vec == <<Float32(scale), Float32(scale)>>
        tile_size == self.info.meta.tile_size
        scaled_size == tile_size * scale
        pos == <<Float32(col * scaled_size), Float32(row * scaled_size)>>
        geom == OctreeChunkGeom(pos, scale_vec)
        data == _get_data(self, row, col)
        key == <<row, col>>
        serial == IF key \in DOMAIN hp THEN hp[key] + 1 ELSE 1
    IN IF data.exc # "none"
       THEN [exc |-> data.exc, heap |-> hp]
       ELSE [exc |-> "none",
             value |-> OctreeChunk(data.value, location, geom, serial),
             heap |-> [k \in DOMAIN hp \cup {key} |->
                          IF k = key THEN serial ELSE hp[k]]]

\* self._tiles[(row, col)]: the value, or KeyError.
TilesGetItem(tiles, key) ==
    IF key \in DOMAIN tiles
    THEN [exc |-> "none", value |-> tiles[key]]
    ELSE [exc |-> "KeyError"]

\* The store that fills the slot to the right as well.
TilesSetItemNextToo(tiles, key, value) ==
    [k \in DOMAIN tiles \cup {key, <<key[1], key[2] + 1>>} |->
        IF k = key \/ k = <<key[1], key[2] + 1>> THEN value ELSE tiles[k]]

\* The assignment that rebinds the whole mapping: self._tiles = {key: value}.
TilesSetItemRebind(tiles, key, value) == [k \in {key} |-> value]

\* self._tiles[(row, col)] = octree_chunk.
TilesSetItem(tiles, key, value) ==
    [k \in DOMAIN tiles \cup {key} |-> IF k = key THEN value ELSE tiles[k]]

\* The bounds check of get_chunk with > in place of >=.
OutsideLevelOffByOne(row, col, rows, cols) ==
    row < 0 \/ row > rows \/ col < 0 \/ col > cols

\* The bounds check of get_chunk: (row, col) is not a tile of the level.
OutsideLevel(row, col, rows, cols) ==
    row < 0 \/ row >= rows \/ col < 0 \/ col >= cols

\* What a get_chunk call does: ret is returned (exc = "none") or exc is
\* raised; self and heap are the level and the heap after the call.
Returns(value, self, hp) == [exc |-> "none", ret |-> value, self |-> self, heap |-> hp]
Raises(e, self, hp) == [exc |-> e, ret |-> None, self |-> self, heap |-> hp]

\* get_chunk without the lookup: every creating call builds and stores a chunk.
get_chunk_no_lookup(self, hp, row, col, create) ==
    IF ~create THEN
        (IF <<row, col>> \in DOMAIN self._tiles
         THEN Returns(self._tiles[<<row, col>>], self, hp)
         ELSE Returns(None, self, hp))
    ELSE IF OutsideLevel(row, col, self.info.shape_in_tiles[1], self.info.shape_in_tiles[2])
    THEN Returns(None, self, hp)
    ELSE LET made == _create_chunk(self, hp, row, col)
         IN IF made.exc # "none" THEN Raises(made.exc, self, made.heap)
            ELSE Returns(made.value,
                         [self EXCEPT !._tiles = TilesSetItem(@, <<row, col>>, made.value)],
                         made.heap)

\* get_chunk that ignores create: a probe of a missing tile creates it.
get_chunk_ignore_create(self, hp, row, col, create) ==
    LET found == TilesGetItem(self._tiles, <<row, col>>)
    IN IF found.exc = "none" THEN Returns(found.value, self, hp)
       ELSE IF OutsideLevel(row, col, self.info.shape_in_tiles[1], self.info.shape_in_tiles[2])
       THEN Returns(None, self, hp)
       ELSE LET made == _create_chunk(self, hp, row, col)
            IN IF made.exc # "none" THEN Raises(made.exc, self, made.heap)
               ELSE Returns(made.value,
                            [self EXCEPT !._tiles = TilesSetItem(@, <<row, col>>, made.value)],
                            made.heap)

\* get_chunk that forgets to store the chunk it created.
get_chunk_no_store(self, hp, row, col, create) ==
    LET found == TilesGetItem(self._tiles, <<row, col>>)
    IN IF found.exc = "none" THEN Returns(found.value, self, hp)
       ELSE IF ~create THEN Returns(None, self, hp)
       ELSE IF OutsideLevel(row, col, self.info.shape_in_tiles[1], self.info.shape_in_tiles[2])
       THEN Returns(None, self, hp)
       ELSE LET made == _create_chunk(self, hp, row, col)
            IN IF made.exc # "none" THEN Raises(made.exc, self, made.heap)
               ELSE Returns(made.value, self, made.heap)

\* get_chunk without the try/except: a missing key raises KeyError.
get_chunk_no_except(self, hp, row, col, create) ==
    LET found == TilesGetItem(self._tiles, <<row, col>>)
    IN IF found.exc # "none" THEN Raises(found.exc, self, hp)
       ELSE Returns(found.value, self, hp)

\* get_chunk that empties the mapping when asked for a tile outside the level.
get_chunk_clear_outside(self, hp, row, col, create) ==
    LET found == TilesGetItem(self._tiles, <<row, col>>)
    IN IF found.exc = "none" THEN Returns(found.value, self, hp)
       ELSE IF ~create THEN Returns(None, self, hp)
       ELSE IF OutsideLevel(row, col, self.info.shape_in_tiles[1], self.info.shape_in_tiles[2])
       THEN Returns(None, [self EXCEPT !._tiles = <<>>], hp)
       ELSE LET made == _create_chunk(self, hp, row, col)
            IN IF made.exc # "none" THEN Raises(made.exc, self, made.heap)
               ELSE Returns(made.value,
                            [self EXCEPT !._tiles = TilesSetItem(@, <<row, col>>, made.value)],
                            made.heap)

\* get_chunk over a mapping that remembers misses: a probe of a missing tile
\* stores None under its key (what a defaultdict would do).
get_chunk_probe_caches_none(self, hp, row, col, create) ==
    LET found == TilesGetItem(self._tiles, <<row, col>>)
    IN IF found.exc = "none" /\ (found.value # None \/ ~create)
       THEN Returns(found.value, self, hp)
       ELSE IF ~create
       THEN Returns(None, [self EXCEPT !._tiles = TilesSetItem(@, <<row, col>>, None)], hp)
       ELSE IF OutsideLevel(row, col, self.info.shape_in_tiles[1], self.info.shape_in_tiles[2])
       THEN Returns(None, self, hp)
       ELSE LET made == _create_chunk(self, hp, row, col)
            IN IF made.exc # "none" THEN Raises(made.exc, self, made.heap)
               ELSE Returns(made.value,
                            [self EXCEPT !._tiles = TilesSetItem(@, <<row, col>>, made.value)],
                            made.heap)

\* get_chunk that reserves the slot before it creates the chunk: the key is
\* bound to None first, and stays so when the creation raises.
get_chunk_store_first(self, hp, row, col, create) ==
    LET found == TilesGetItem(self._tiles, <<row, col>>)
        reserved == [self EXCEPT !._tiles = TilesSetItem(@, <<row, col>>, None)]
    IN IF found.exc = "none" THEN Returns(found.value, self, hp)
       ELSE IF ~create THEN Returns(None, self, hp)
       ELSE IF OutsideLevel(row, col, self.info.shape_in_tiles[1], self.info.shape_in_tiles[2])
       THEN Returns(None, self, hp)
       ELSE LET made == _create_chunk(self, hp, row, col)
            IN IF made.exc # "none" THEN Raises(made.exc, reserved, made.heap)
               ELSE Returns(made.value,
                            [self EXCEPT !._tiles = TilesSetItem(@, <<row, col>>, made.value)],
                            made.heap)

\* OctreeLevel.get_chunk(row, col, create).
get_chunk(self, hp, row, col, create) ==
    LET found == TilesGetItem(self._tiles, <<row, col>>)
        rows == self.info.shape_in_tiles[1]
        cols == self.info.shape_in_tiles[2]
    IN IF found.exc = "none" THEN Returns(found.value, self, hp)
       ELSE IF found.exc # "KeyError" THEN Raises(found.exc, self, hp)
       ELSE IF ~create THEN Returns(None, self, hp)
       ELSE IF OutsideLevel(row, col, rows, cols) THEN Returns(None, self, hp)
       ELSE LET made == _create_chunk(self, hp, row, col)
            IN IF made.exc # "none" THEN Raises(made.exc, self, made.heap)
               ELSE Returns(made.value,
                            [self EXCEPT !._tiles = TilesSetItem(@, <<row, col>>, made.value)],
                            made.heap)

\* ------------------------------------------------------------------- Spec
NoCall == [type |-> "NoCall"]

\* No OctreeLevelInfo was built a second time.
NoTwin == [type |-> "NoTwin"]

\* No pyramid is built and nothing was logged.
NoLog == [type |-> "NoLog"]
NoPyramid ==
    levels = <<>> /\ heaps = <<>> /\ called = 0 /\ logged = NoLog /\ asked = <<>>

\* The threads calling get_chunk concurrently, and a frame of no call.
Threads == 1..MaxThreads
NoFrame == [type |-> "NoFrame"]

\* No thread has been started.
NoThreads ==
    /\ serialized = TRUE
    /\ lock = 0
    /\ pc = [t \in Threads |-> "idle"]
    /\ frame = [t \in Threads |-> NoFrame]
    /\ tiles0 = <<>>

\* No IntensityVisualizationMixin object is built.
NoMixinInUse ==
    /\ mixin = None
    /\ assigned = None

\* No name is being numbered.
NoNaming ==
    /\ original = <<>>
    /\ name = <<>>
    /\ incs = 0
    /\ names = <<>>
    /\ depth = 0
    /\ unique = None

\* No transform is in use.
NoTransforms ==
    /\ chain = <<>>
    /\ coords = <<>>
    /\ simple = None
    /\ applied = None

NoUtil == NoMixinInUse /\ NoNaming /\ NoTransforms

\* The metadata of the pyramid: positive base_shape and tile_size.
Metas ==
    [base_shape : (1..MaxHeight) \X (1..MaxWidth), tile_size : 1..MaxTile,
     layer_ref : {"layer"}]

\* The data of a level: 2-D, or 3-D with three colours, its two leading axes
\* as large as the level's image (halved with or without the odd last pixel).
Datas(m, level_index) ==
    LET scale == Pow(2, level_index)
        spatial == {<<int(TrueDiv(m.base_shape[1], scale)), int(TrueDiv(m.base_shape[2], scale))>>,
                    <<ceil(TrueDiv(m.base_shape[1], scale)), ceil(TrueDiv(m.base_shape[2], scale))>>}
    IN {[shape |-> s] : s \in spatial} \cup {[shape |-> s \o <<3>>] : s \in spatial}

Init ==
    /\ \E m \in Metas, level_index \in 0..MaxLevel :
         \E data \in Datas(m, level_index) :
            level = OctreeLevel(0, data, m, level_index)
    /\ heap = <<>>
    /\ call = NoCall
    /\ ret = None
    /\ exc = "none"
    /\ handed = <<>>
    /\ failed = {}
    /\ meta = level.info.meta
    /\ infos = <<>>
    /\ twin = NoTwin
    /\ NoPyramid
    /\ NoThreads
    /\ NoUtil

\* One get_chunk call, run to completion.
GetChunk ==
    \E row \in -1..MaxRow, col \in -1..MaxCol, create \in BOOLEAN :
        LET out == get_chunk(level, heap, row, col, create)
            key == <<row, col>>
        IN /\ level' = out.self
           /\ heap' = out.heap
           /\ call' = [row |-> row, col |-> col, create |-> create]
           /\ ret' = out.ret
           /\ exc' = out.exc
           /\ handed' = IF create /\ out.exc = "none" /\ out.ret # None
                           /\ key \notin DOMAIN handed
                        THEN [k \in DOMAIN handed \cup {key} |->
                                 IF k = key THEN out.ret ELSE handed[k]]
                        ELSE handed
           /\ failed' = IF out.exc # "none" THEN failed \cup {key} ELSE failed
           /\ UNCHANGED <<meta, infos, twin, pyramidVars, threadVars, utilVars>>

Next == GetChunk

Spec == Init /\ [][Next]_vars

\* --------------------------------------------------------------- SpecInfo
InfoMetas ==
    [base_shape : ((1..MaxBase) \cup {250, 300, 512}) \X ((1..MaxBase) \cup {250, 300, 512}),
     tile_size : (1..MaxInfoTile) \cup {100, 256},
     layer_ref : {"layer"}]

InitInfo ==
    /\ meta \in InfoMetas
    /\ infos = <<>>
    /\ twin = NoTwin
    /\ level = OctreeLevel(0, [shape |-> meta.base_shape], meta, 0)
    /\ heap = <<>>
    /\ call = NoCall
    /\ ret = None
    /\ exc = "none"
    /\ handed = <<>>
    /\ failed = {}
    /\ NoPyramid
    /\ NoThreads
    /\ NoUtil

\* Build the info of the next level of the pyramid. The info keeps a
\* reference to the meta it was given (self.meta = meta), so the meta after
\* the call is what that reference shows.
NewLevelInfo ==
    /\ Len(infos) <= MaxInfoLevel
    /\ LET f == OctreeLevelInfo(meta, Len(infos))
       IN /\ infos' = Append(infos, f)
          /\ meta' = f.meta
    /\ UNCHANGED <<level, heap, call, ret, exc, handed, failed, twin, pyramidVars, threadVars, utilVars>>

\* Build the info of a level already built once more, from a second
\* OctreeMetadata of equal base_shape and tile_size (of this layer or another).
TwinLevelInfo ==
    /\ \E level_index \in 0..(Len(infos) - 1), layer_ref \in {"layer", "other"} :
          LET given == [base_shape |-> meta.base_shape, tile_size |-> meta.tile_size,
                        layer_ref |-> layer_ref]
              f == OctreeLevelInfo(given, level_index)
          IN twin' = [level_index |-> level_index, given |-> given, info |-> f]
    /\ UNCHANGED <<level, heap, call, ret, exc, handed, failed, meta, infos, pyramidVars, threadVars, utilVars>>

NextInfo == NewLevelInfo \/ TwinLevelInfo

SpecInfo == InitInfo /\ [][NextInfo]_vars

\* ------------------------------------------------------------- SpecFaulty
\* get_chunk over data sources that raise when sliced: a 1-D array (two
\* slices are one index too many) and a 2-D source that cannot be read for a
\* while (a file or network store) and can again later.
FaultyMetas ==
    [base_shape : (1..MaxFaultyHeight) \X {1}, tile_size : {1}, layer_ref : {"layer"}]

FaultyDatas(m) ==
    {[shape |-> m.base_shape], [shape |-> <<m.base_shape[1]>>],
     [shape |-> m.base_shape, raises |-> "OSError"]}

InitFaulty ==
    /\ \E m \in FaultyMetas :
         \E data \in FaultyDatas(m) :
            level = OctreeLevel(0, data, m, 0)
    /\ heap = <<>>
    /\ call = NoCall
    /\ ret = None
    /\ exc = "none"
    /\ handed = <<>>
    /\ failed = {}
    /\ meta = level.info.meta
    /\ infos = <<>>
    /\ twin = NoTwin
    /\ NoPyramid
    /\ NoThreads
    /\ NoUtil

\* The 2-D source stops answering.
SourceFails ==
    /\ Len(level.data.shape) = 2
    /\ "raises" \notin DOMAIN level.data
    /\ level' = [level EXCEPT !.data = [shape |-> level.data.shape, raises |-> "OSError"]]
    /\ UNCHANGED <<heap, call, ret, exc, handed, failed, meta, infos, twin,
                   pyramidVars, threadVars, utilVars>>

\* The 2-D source answers again.
SourceRecovers ==
    /\ "raises" \in DOMAIN level.data
    /\ level' = [level EXCEPT !.data = [shape |-> level.data.shape]]
    /\ UNCHANGED <<heap, call, ret, exc, handed, failed, meta, infos, twin,
                   pyramidVars, threadVars, utilVars>>

NextFaulty == GetChunk \/ SourceFails \/ SourceRecovers

SpecFaulty == InitFaulty /\ [][NextFaulty]_vars

\* -------------------------------------------------------------- SpecChunk
ChunkMetas ==
    [base_shape : (((1..MaxChunkBase) \cup {250, 300}) \X ((1..MaxChunkBase) \cup {250, 300}))
                  \cup ((1..MaxChunkBase) \X {Float32Exact + 2}),
     tile_size : (1..MaxChunkTile) \cup {100},
     layer_ref : {"layer"}]

InitChunk ==
    /\ \E m \in ChunkMetas, level_index \in 0..MaxChunkLevel :
         \E data \in Datas(m, level_index) :
            level = OctreeLevel(0, data, m, level_index)
    /\ heap = <<>>
    /\ call = NoCall
    /\ ret = None
    /\ exc = "none"
    /\ handed = <<>>
    /\ failed = {}
    /\ meta = level.info.meta
    /\ infos = <<>>
    /\ twin = NoTwin
    /\ NoPyramid
    /\ NoThreads
    /\ NoUtil

\* get_chunk(row, col, create=True) on a level that holds no chunk yet.
CreateChunk ==
    /\ DOMAIN level._tiles = {}
    /\ \E row \in -1..MaxChunkRow, col \in (-1..MaxChunkCol) \cup {Float32Exact + 1} :
          LET out == get_chunk(level, heap, row, col, TRUE)
          IN /\ level' = out.self
             /\ heap' = out.heap
             /\ call' = [row |-> row, col |-> col, create |-> TRUE]
             /\ ret' = out.ret
             /\ exc' = out.exc
             /\ handed' = IF out.exc = "none" /\ out.ret # None
                          THEN [k \in {<<row, col>>} |-> out.ret]
                          ELSE handed
             /\ failed' = IF out.exc # "none" THEN failed \cup {<<row, col>>} ELSE failed
             /\ UNCHANGED <<meta, infos, twin, pyramidVars, threadVars, utilVars>>

NextChunk == CreateChunk

SpecChunk == InitChunk /\ [][NextChunk]_vars

\* ------------------------------------------------------------ SpecPyramid
PyramidMetas ==
    [base_shape : (1..MaxPyrHeight) \X (1..MaxPyrWidth), tile_size : 1..MaxPyrTile,
     layer_ref : {"layer"}]

\* The levels of the pyramid of slice slice_id from level_index on, up to the
\* first level of a single tile; each level's data is as large as its image.
RECURSIVE BuildLevels(_, _, _)
BuildLevels(slice_id, m, level_index) ==
    LET f == OctreeLevelInfo(m, level_index)
        self == OctreeLevel(slice_id, [shape |-> f.image_shape], m, level_index)
    IN IF f.num_tiles = 1 THEN <<self>>
       ELSE <<self>> \o BuildLevels(slice_id, m, level_index + 1)

InitPyramid ==
    /\ meta \in PyramidMetas
    /\ levels = BuildLevels(0, meta, 0)
    /\ heaps = [i \in 1..Len(levels) |-> <<>>]
    /\ called = 0
    /\ logged = NoLog
    /\ asked = <<>>
    /\ level = levels[1]
    /\ heap = <<>>
    /\ call = NoCall
    /\ ret = None
    /\ exc = "none"
    /\ handed = <<>>
    /\ failed = {}
    /\ infos = <<>>
    /\ twin = NoTwin
    /\ NoThreads
    /\ NoUtil

\* The levels with one mapping for all of them: what a _tiles kept on the
\* class instead of the instance would do.
SetLevelSharedTiles(lvls, i, self) ==
    [j \in 1..Len(lvls) |->
        IF j = i THEN self ELSE [lvls[j] EXCEPT !._tiles = self._tiles]]

\* The levels after get_chunk ran on level i: each level owns its attributes
\* (self._tiles = {} in __init__), so only level i is rebound.
SetLevel(lvls, i, self) == [lvls EXCEPT ![i] = self]

\* One get_chunk call on one level of the pyramid, run to completion.
GetChunkAt ==
    \E i \in 1..Len(levels) :
      \E row \in -1..levels[i].info.rows, col \in -1..levels[i].info.cols,
         create \in BOOLEAN :
        LET out == get_chunk(levels[i], heaps[i], row, col, create)
        IN /\ levels' = SetLevel(levels, i, out.self)
           /\ heaps' = [heaps EXCEPT ![i] = out.heap]
           /\ called' = i
           /\ call' = [row |-> row, col |-> col, create |-> create]
           /\ ret' = out.ret
           /\ exc' = out.exc
           /\ UNCHANGED <<level, heap, handed, failed, meta, infos, twin, logged, asked, threadVars, utilVars>>

\* intword(value): the count as it is below a million, otherwise abbreviated
\* to tenths of the largest power of a thousand below it.
RECURSIVE intword_power(_)
intword_power(value) == IF value < 1000000 THEN 1 ELSE 1000 * intword_power(value \div 1000)
intword(value) ==
    IF value < 1000000 THEN [abbreviated |-> FALSE, digits |-> value]
    ELSE LET unit == 1000 * intword_power(value \div 1000)
         IN [abbreviated |-> TRUE, tenths |-> (20 * value + unit) \div (2 * unit),
             unit |-> unit]

\* _dim_str(dim): f"({dim[0]}, {dim[1]}) = {intword(dim[0] * dim[1])}".
_dim_str(dim) == [first |-> dim[1], second |-> dim[2], count |-> intword(dim[1] * dim[2])]

\* The record LOGGER.info(msg, *args) emits.
LogRecord(msg, args) == [msg |-> msg, args |-> args]

\* log_levels that asks every level for its first chunk while reporting.
log_levels_creating(lvls, hps, start_level) ==
    [levels |-> [i \in 1..Len(lvls) |-> get_chunk(lvls[i], hps[i], 0, 0, TRUE).self],
     heaps |-> [i \in 1..Len(lvls) |-> get_chunk(lvls[i], hps[i], 0, 0, TRUE).heap],
     records |-> [i \in 1..Len(lvls) |->
                    LogRecord("Level %d: %s pixels -> %s tiles",
                              <<start_level + (i - 1),
                                _dim_str(lvls[i].info.image_shape),
                                _dim_str(lvls[i].info.shape_in_tiles)>>)]]

\* log_levels(levels, start_level): the levels and heaps after the call and
\* the records emitted, in order. The level at list index i - 1 (enumerate
\* counts from 0) is lvls[i].
log_levels(lvls, hps, start_level) ==
    [levels |-> lvls, heaps |-> hps,
     records |-> [i \in 1..Len(lvls) |->
                    LogRecord("Level %d: %s pixels -> %s tiles",
                              <<start_level + (i - 1),
                                _dim_str(lvls[i].info.image_shape),
                                _dim_str(lvls[i].info.shape_in_tiles)>>)]]

\* The levels lvls with those from position first on replaced by tail.
SetLevelsFrom(lvls, first, tail) ==
    [j \in 1..Len(lvls) |-> IF j < first THEN lvls[j] ELSE tail[j - first + 1]]

\* One log_levels call on the levels of the pyramid from position first on.
LogLevels ==
    \E first \in 1..Len(levels), start_level \in 0..MaxStartLevel :
        LET out == log_levels(SubSeq(levels, first, Len(levels)),
                              SubSeq(heaps, first, Len(heaps)), start_level)
        IN /\ levels' = SetLevelsFrom(levels, first, out.levels)
           /\ heaps' = SetLevelsFrom(heaps, first, out.heaps)
           /\ logged' = [first |-> first, start_level |-> start_level,
                         records |-> out.records]
           /\ UNCHANGED <<level, heap, call, ret, exc, handed, failed, meta, infos, twin,
                          called, asked, threadVars, utilVars>>

NextPyramid == GetChunkAt

SpecPyramid == InitPyramid /\ [][NextPyramid]_vars

\* ---------------------------------------------------------------- SpecLog
\* The pyramid of a one-column image, with get_chunk calls on its levels and
\* log_levels calls on the list of them.
LogMetas ==
    [base_shape : (1..MaxLogHeight) \X {1}, tile_size : {1}, layer_ref : {"layer"}]

InitLog ==
    /\ meta \in LogMetas
    /\ levels = BuildLevels(0, meta, 0)
    /\ heaps = [i \in 1..Len(levels) |-> <<>>]
    /\ called = 0
    /\ logged = NoLog
    /\ asked = <<>>
    /\ level = levels[1]
    /\ heap = <<>>
    /\ call = NoCall
    /\ ret = None
    /\ exc = "none"
    /\ handed = <<>>
    /\ failed = {}
    /\ infos = <<>>
    /\ twin = NoTwin
    /\ NoThreads
    /\ NoUtil

NextLog == GetChunkAt \/ LogLevels

SpecLog == InitLog /\ [][NextLog]_vars

\* ------------------------------------------------------------- SpecOrders
\* Two equal fresh levels over one data source, each asked for chunks in an
\* order of its own.
OrderMeta == [base_shape |-> <<2, 1>>, tile_size |-> 1, layer_ref |-> "layer"]

InitOrders ==
    /\ meta = OrderMeta
    /\ levels = [i \in 1..2 |-> OctreeLevel(0, [shape |-> meta.base_shape], meta, 0)]
    /\ heaps = [i \in 1..2 |-> <<>>]
    /\ asked = [i \in 1..2 |-> <<>>]
    /\ called = 0
    /\ logged = NoLog
    /\ level = levels[1]
    /\ heap = <<>>
    /\ call = NoCall
    /\ ret = None
    /\ exc = "none"
    /\ handed = <<>>
    /\ failed = {}
    /\ infos = <<>>
    /\ twin = NoTwin
    /\ NoThreads
    /\ NoUtil

\* One get_chunk call on one of the two levels, run to completion; at most
\* MaxOrderCalls create=True calls are made on a level.
GetChunkOn ==
    \E i \in 1..Len(levels) :
      \E row \in -1..levels[i].info.rows, col \in {0}, create \in BOOLEAN :
        LET out == get_chunk(levels[i], heaps[i], row, col, create)
        IN /\ create => Len(asked[i]) < MaxOrderCalls
           /\ levels' = SetLevel(levels, i, out.self)
           /\ heaps' = [heaps EXCEPT ![i] = out.heap]
           /\ asked' = IF create THEN [asked EXCEPT ![i] = Append(@, <<row, col>>)]
                       ELSE asked
           /\ called' = i
           /\ UNCHANGED <<level, heap, call, ret, exc, handed, failed, meta, infos, twin,
                          logged, threadVars, utilVars>>

NextOrders == GetChunkOn

SpecOrders == InitOrders /\ [][NextOrders]_vars

\* ------------------------------------------------------------- SpecFamily
\* levels[1] is level k of a pyramid and levels[2] its level k + 1, each over
\* data as large as its image.
FamilyMetas ==
    [base_shape : (1..MaxFamilyBase) \X ((1..MaxFamilyBase) \cup {Float32Exact + 2}),
     tile_size : 1..MaxFamilyTile, layer_ref : {"layer"}]

InitFamily ==
    /\ meta \in FamilyMetas
    /\ \E k \in 0..MaxFamilyLevel :
          levels = [i \in 1..2 |->
                       OctreeLevel(0, [shape |-> OctreeLevelInfo(meta, k + i - 1).image_shape],
                                   meta, k + i - 1)]
    /\ heaps = [i \in 1..2 |-> <<>>]
    /\ asked = <<>>
    /\ called = 0
    /\ logged = NoLog
    /\ level = levels[1]
    /\ heap = <<>>
    /\ call = NoCall
    /\ ret = None
    /\ exc = "none"
    /\ handed = <<>>
    /\ failed = {}
    /\ infos = <<>>
    /\ twin = NoTwin
    /\ NoThreads
    /\ NoUtil

\* get_chunk(R, C, create=True) on the coarser level, which holds no chunk yet.
CreateParent ==
    /\ DOMAIN levels[2]._tiles = {}
    /\ \E R \in 0..MaxFamilyRow, C \in (0..MaxFamilyCol) \cup {Float32Exact \div 2} :
          LET out == get_chunk(levels[2], heaps[2], R, C, TRUE)
          IN /\ levels' = SetLevel(levels, 2, out.self)
             /\ heaps' = [heaps EXCEPT ![2] = out.heap]
             /\ called' = 2
             /\ call' = [row |-> R, col |-> C, create |-> TRUE]
             /\ ret' = out.ret
             /\ exc' = out.exc
    /\ UNCHANGED <<level, heap, handed, failed, meta, infos, twin, logged, asked, threadVars, utilVars>>

\* get_chunk(2R + i, 2C + j, create=True) on the finer level, for a child
\* slot of the tile (R, C) the coarser level holds.
CreateChild ==
    /\ \E parent \in DOMAIN levels[2]._tiles, i \in 0..1, j \in 0..1 :
          LET row == 2 * parent[1] + i
              col == 2 * parent[2] + j
              out == get_chunk(levels[1], heaps[1], row, col, TRUE)
          IN /\ levels' = SetLevel(levels, 1, out.self)
             /\ heaps' = [heaps EXCEPT ![1] = out.heap]
             /\ called' = 1
             /\ call' = [row |-> row, col |-> col, create |-> TRUE]
             /\ ret' = out.ret
             /\ exc' = out.exc
    /\ UNCHANGED <<level, heap, handed, failed, meta, infos, twin, logged, asked, threadVars, utilVars>>

NextFamily == CreateParent \/ CreateChild

SpecFamily == InitFamily /\ [][NextFamily]_vars

\* ------------------------------------------------------------ SpecThreads
\* get_chunk is plain Python without a lock: between any two of its
\* statements another thread may run. Its statements, in order: the lookup
\* (try/except, l.105-109), the bounds check (l.111-116), the construction
\* (l.119), the store (l.120) and the return (l.121).

ThreadMeta ==
    [base_shape |-> <<MaxThreadRow + 1, 1>>, tile_size |-> 1,
     layer_ref |-> "layer"]

\* The level after get_chunk(r, c, create=True) for every (r, c) of keys, one
\* call after the other.
RECURSIVE Populate(_, _, _)
Populate(self, hp, keys) ==
    IF keys = {} THEN [self |-> self, heap |-> hp]
    ELSE LET k == CHOOSE x \in keys : TRUE
             out == get_chunk(self, hp, k[1], k[2], TRUE)
         IN Populate(out.self, out.heap, keys \ {k})

InitThreads ==
    /\ meta = ThreadMeta
    /\ \E keys \in SUBSET ((0..MaxThreadRow) \X {0}) :
          LET start == Populate(OctreeLevel(0, [shape |-> meta.base_shape], meta, 0),
                                <<>>, keys)
          IN level = start.self /\ heap = start.heap
    /\ tiles0 = level._tiles
    /\ serialized \in BOOLEAN
    /\ lock = 0
    /\ pc = [t \in Threads |-> "idle"]
    /\ frame = [t \in Threads |-> NoFrame]
    /\ call = NoCall
    /\ ret = None
    /\ exc = "none"
    /\ handed = <<>>
    /\ failed = {}
    /\ infos = <<>>
    /\ twin = NoTwin
    /\ NoPyramid
    /\ NoUtil

\* The end of a call: the thread is done and gives the mutex back.
Finish(t, value, e) ==
    /\ pc' = [pc EXCEPT ![t] = "done"]
    /\ frame' = [frame EXCEPT ![t].ret = value, ![t].exc = e]
    /\ lock' = IF serialized THEN 0 ELSE lock

\* Thread t calls get_chunk(row, col, create), taking the mutex first when
\* the callers serialize.
ThreadCall(t) ==
    /\ pc[t] = "idle"
    /\ serialized => lock = 0
    /\ \E row \in -1..MaxThreadRow, col \in {0}, create \in BOOLEAN :
          frame' = [frame EXCEPT ![t] =
                       [row |-> row, col |-> col, create |-> create,
                        octree_chunk |-> None, ret |-> None, exc |-> "none"]]
    /\ pc' = [pc EXCEPT ![t] = "lookup"]
    /\ lock' = IF serialized THEN t ELSE lock
    /\ UNCHANGED <<level, heap, serialized, tiles0>>

\* The lookup that takes a creating call to the creation without looking.
LookupStepNoLookup(tiles, key, create) ==
    IF create THEN [pc |-> "bounds", ret |-> None]
    ELSE IF key \in DOMAIN tiles THEN [pc |-> "done", ret |-> tiles[key]]
    ELSE [pc |-> "done", ret |-> None]

\* The lookup that ignores create: a probe that misses goes on to create.
LookupStepIgnoreCreate(tiles, key, create) ==
    LET found == TilesGetItem(tiles, key)
    IN IF found.exc = "none" THEN [pc |-> "done", ret |-> found.value]
       ELSE [pc |-> "bounds", ret |-> None]

\* try: return self._tiles[(row, col)]; except KeyError: if not create: return None.
LookupStep(tiles, key, create) ==
    LET found == TilesGetItem(tiles, key)
    IN IF found.exc = "none" THEN [pc |-> "done", ret |-> found.value]
       ELSE IF ~create THEN [pc |-> "done", ret |-> None]
       ELSE [pc |-> "bounds", ret |-> None]

ThreadLookup(t) ==
    /\ pc[t] = "lookup"
    /\ LET step == LookupStep(level._tiles, <<frame[t].row, frame[t].col>>, frame[t].create)
       IN IF step.pc = "done" THEN Finish(t, step.ret, "none")
          ELSE /\ pc' = [pc EXCEPT ![t] = step.pc]
               /\ UNCHANGED <<frame, lock>>
    /\ UNCHANGED <<level, heap, serialized, tiles0>>

\* rows, cols = self.info.shape_in_tiles; if outside: return None.
ThreadBounds(t) ==
    /\ pc[t] = "bounds"
    /\ IF OutsideLevel(frame[t].row, frame[t].col,
                       level.info.shape_in_tiles[1], level.info.shape_in_tiles[2])
       THEN Finish(t, None, "none")
       ELSE /\ pc' = [pc EXCEPT ![t] = "create"]
            /\ UNCHANGED <<frame, lock>>
    /\ UNCHANGED <<level, heap, serialized, tiles0>>

\* octree_chunk = self._create_chunk(row, col).
ThreadCreate(t) ==
    /\ pc[t] = "create"
    /\ LET made == _create_chunk(level, heap, frame[t].row, frame[t].col)
       IN /\ heap' = made.heap
          /\ IF made.exc # "none" THEN Finish(t, None, made.exc)
             ELSE /\ frame' = [frame EXCEPT ![t].octree_chunk = made.value]
                  /\ pc' = [pc EXCEPT ![t] = "store"]
                  /\ UNCHANGED lock
    /\ UNCHANGED <<level, serialized, tiles0>>

\* self._tiles[(row, col)] = octree_chunk.
ThreadStore(t) ==
    /\ pc[t] = "store"
    /\ level' = [level EXCEPT !._tiles =
                    TilesSetItem(@, <<frame[t].row, frame[t].col>>, frame[t].octree_chunk)]
    /\ pc' = [pc EXCEPT ![t] = "return"]
    /\ UNCHANGED <<heap, frame, lock, serialized, tiles0>>

\* return octree_chunk.
ThreadReturn(t) ==
    /\ pc[t] = "return"
    /\ Finish(t, frame[t].octree_chunk, "none")
    /\ UNCHANGED <<level, heap, serialized, tiles0>>

NextThreads ==
    /\ \E t \in Threads :
          \/ ThreadCall(t)
          \/ ThreadLookup(t)
          \/ ThreadBounds(t)
          \/ ThreadCreate(t)
          \/ ThreadStore(t)
          \/ ThreadReturn(t)
    /\ UNCHANGED <<call, ret, exc, handed, failed, meta, infos, twin, pyramidVars, utilVars>>

SpecThreads == InitThreads /\ [][NextThreads]_vars

\* ----------------------------------------------------- the octree at rest
octreeVars == <<level, heap, call, ret, exc, handed, failed, meta, infos, twin,
                pyramidVars, threadVars>>

\* No octree is in use: one untouched level of a 1 x 1 image.
NoOctree ==
    /\ meta = [base_shape |-> <<1, 1>>, tile_size |-> 1, layer_ref |-> "layer"]
    /\ level = OctreeLevel(0, [shape |-> <<1, 1>>], meta, 0)
    /\ heap = <<>>
    /\ call = NoCall
    /\ ret = None
    /\ exc = "none"
    /\ handed = <<>>
    /\ failed = {}
    /\ infos = <<>>
    /\ twin = NoTwin
    /\ NoPyramid
    /\ NoThreads

\* ----------------------------------------------------------- SpecContrast
\* napari/layers/intensity_mixin.py: the contrast limits of a layer and the
\* range they are meant to lie in. A limit is None or a number; a number is
\* kept as an object so that it can stand where None can.
Num(n) == [type |-> "int", value |-> n]

\* Python any(): whether some element is truthy (None and 0 are not).
any(iterable) ==
    \E i \in DOMAIN iterable : iterable[i] # None /\ iterable[i].value # 0

\* Python min() and max() of two numbers; with None they raise TypeError,
\* which the callers test for with Comparable before they use them.
Comparable(values) == \A i \in DOMAIN values : values[i] # None
min(a, b) == IF b.value < a.value THEN b ELSE a
max(a, b) == IF b.value > a.value THEN b ELSE a

\* IntensityVisualizationMixin.__init__.
IntensityVisualizationMixin ==
    [_contrast_limits |-> <<None, None>>, _contrast_limits_range |-> <<None, None>>]

\* _on_contrast_limits_change: nothing to do for the limits it already has;
\* otherwise keep the value and widen the range to fit it, by assigning
\* contrast_limits_range, whose setter emits the event that calls
\* _on_contrast_limits_range_change. min(None, x) raises TypeError after the
\* value was kept. (status and the thumbnail are not part of the limits.)
RECURSIVE _on_contrast_limits_change(_, _)
RECURSIVE _on_contrast_limits_range_change(_, _)
_on_contrast_limits_change(self, value) ==
    IF value = self._contrast_limits THEN [self |-> self, exc |-> "none"]
    ELSE LET set == [self EXCEPT !._contrast_limits = value]
             newrange == set._contrast_limits_range
         IN IF ~Comparable(newrange \o value) THEN [self |-> set, exc |-> "TypeError"]
            ELSE _on_contrast_limits_range_change(
                     set, <<min(newrange[1], value[1]), max(newrange[2], value[2])>>)

\* _on_contrast_limits_range_change: nothing to do for the range it already
\* has; otherwise keep the value (None keeps the current bound) and, if
\* any(self._contrast_limits), clamp the limits into it by assigning
\* contrast_limits, whose setter emits the event that calls
\* _on_contrast_limits_change.
_on_contrast_limits_range_change(self, value) ==
    LET current_range == self._contrast_limits_range
    IN IF value = current_range THEN [self |-> self, exc |-> "none"]
       ELSE LET kept == [i \in 1..2 |-> IF value[i] = None THEN current_range[i] ELSE value[i]]
                set == [self EXCEPT !._contrast_limits_range = kept]
            IN IF any(set._contrast_limits)
               THEN IF ~Comparable(kept \o set._contrast_limits)
                    THEN [self |-> set, exc |-> "TypeError"]
                    ELSE LET cur_min == set._contrast_limits[1]
                             cur_max == set._contrast_limits[2]
                             new_min == min(max(kept[1], cur_min), kept[2])
                             new_max == max(min(kept[2], cur_max), kept[1])
                         IN _on_contrast_limits_change(set, <<new_min, new_max>>)
               ELSE [self |-> set, exc |-> "none"]

\* The values assigned: pairs of numbers (lo, hi) with lo <= hi.
ContrastPairs ==
    {<<Num(q[1]), Num(q[2])>> :
        q \in {q \in (0..MaxContrast) \X (0..MaxContrast) : q[1] <= q[2]}}

\* Some assignment so far raised.
Raised == assigned # None /\ assigned.raised

InitContrast ==
    /\ mixin = IntensityVisualizationMixin
    /\ assigned = None
    /\ NoNaming
    /\ NoTransforms
    /\ NoOctree

\* layer.contrast_limits = value.
SetContrastLimits ==
    /\ \E value \in ContrastPairs :
          LET done == _on_contrast_limits_change(mixin, value)
          IN /\ mixin' = done.self
             /\ assigned' = [attr |-> "contrast_limits", value |-> value, exc |-> done.exc,
                             raised |-> Raised \/ done.exc # "none"]
    /\ UNCHANGED <<namingVars, transformVars, octreeVars>>

\* layer.contrast_limits_range = value.
SetContrastLimitsRange ==
    /\ \E value \in ContrastPairs :
          LET done == _on_contrast_limits_range_change(mixin, value)
          IN /\ mixin' = done.self
             /\ assigned' = [attr |-> "contrast_limits_range", value |-> value, exc |-> done.exc,
                             raised |-> Raised \/ done.exc # "none"]
    /\ UNCHANGED <<namingVars, transformVars, octreeVars>>

NextContrast == SetContrastLimits \/ SetContrastLimitsRange

SpecContrast == InitContrast /\ [][NextContrast]_vars

\* -------------------------------------------------------------- SpecCount
\* napari/utils/naming.py. A str is the sequence of its characters.
sep == <<" ">>
start == 1

\* The decimal digits: digit d is Digit[d + 1].
Digit == <<"0", "1", "2", "3", "4", "5", "6", "7", "8", "9">>
IsDigit(c) == \E d \in DOMAIN Digit : Digit[d] = c

\* \s of a regular expression (the vertical tab, which no TLA+ string can
\* hold, left aside).
IsSpace(c) == c \in {" ", "\t", "\n", "\r", "\f"}

\* int(s) of a str of digits, and f'{n}' of an int that is not negative.
RECURSIVE int_of_digits(_)
int_of_digits(s) ==
    IF s = <<>> THEN 0
    ELSE 10 * int_of_digits(SubSeq(s, 1, Len(s) - 1))
           + (CHOOSE d \in DOMAIN Digit : Digit[d] = s[Len(s)]) - 1

RECURSIVE str(_)
str(n) == IF n < 10 THEN <<Digit[n + 1]>> ELSE str(n \div 10) \o <<Digit[(n % 10) + 1]>>

\* $ of a regular expression, at the position after p characters: the end
\* of the string, or just before a newline that ends it.
EndOfString(s, p) == p = Len(s) \/ (p = Len(s) - 1 /\ s[Len(s)] = "\n")

\* \d+ is greedy: the number of digits that follow the position.
DigitRun(s, p) ==
    CHOOSE k \in 0..(Len(s) - p) :
        /\ \A i \in 1..k : IsDigit(s[p + i])
        /\ p + k = Len(s) \/ ~IsDigit(s[p + k + 1])

\* The first alternative of numbered_patt matches at the position after p
\* characters: the p characters before the position end in a "[" that
\* starts the string or follows a whitespace character, (?<=\A\[)|(?<=\s\[),
\* and digits, or nothing, stand between it and a "]" that ends the string.
\* (With fewer digits than the whole run the next character is a digit and
\* not the "]" the lookahead asks for, so backtracking finds nothing more.)
BracketedCount(s, p) ==
    /\ \/ p = 1 /\ s[1] = "["
       \/ p >= 2 /\ s[p] = "[" /\ IsSpace(s[p - 1])
    /\ LET k == DigitRun(s, p)
       IN /\ p + k + 1 <= Len(s)
          /\ s[p + k + 1] = "]"
          /\ EndOfString(s, p + k + 1)

\* numbered_patt.search: the leftmost position where the pattern matches,
\* by its first alternative or else by its second, the bare $.
numbered_patt(s) ==
    LET Matches(p) == BracketedCount(s, p) \/ EndOfString(s, p)
        p == CHOOSE p \in 0..Len(s) : Matches(p) /\ \A q \in 0..(p - 1) : ~Matches(q)
    IN IF BracketedCount(s, p) THEN [start |-> p, end |-> p + DigitRun(s, p)]
       ELSE [start |-> p, end |-> p]

\* _inc_name_count_sub: int('') raises ValueError, digits do not.
_inc_name_count_sub(match) ==
    IF match = <<>> THEN sep \o <<"[">> \o str(start) \o <<"]">>
    ELSE str(int_of_digits(match) + 1)

\* inc_name_count: numbered_patt.sub(..., count=1) replaces the first match.
inc_name_count(name_) ==
    LET m == numbered_patt(name_)
    IN SubSeq(name_, 1, m.start)
         \o _inc_name_count_sub(SubSeq(name_, m.start + 1, m.end))
         \o SubSeq(name_, m.end + 1, Len(name_))

\* The characters of the names, and the names of at most n of them.
Strs(n) == UNION {[1..k -> {"a", " ", "[", "]", "0", "1", "9", "\n"}] : k \in 0..n}

InitCount ==
    /\ original \in Strs(MaxNameLen)
    /\ name = original
    /\ incs = 0
    /\ names = <<>>
    /\ depth = 0
    /\ unique = None
    /\ NoMixinInUse
    /\ NoTransforms
    /\ NoOctree

\* name = inc_name_count(name).
IncNameCount ==
    /\ incs < MaxIncs
    /\ name' = inc_name_count(name)
    /\ incs' = incs + 1
    /\ UNCHANGED <<original, names, depth, unique, mixinVars, transformVars, octreeVars>>

NextCount == IncNameCount

SpecCount == InitCount /\ [][NextCount]_vars

\* ------------------------------------------------------------- SpecUnique
\* names.count(name).
count(list, x) == Cardinality({i \in DOMAIN list : list[i] = x})

\* s, inc_name_count(s), ... : the first n names that inc_name_count makes of s.
RECURSIVE Successors(_, _)
Successors(s, n) == IF n = 0 THEN <<>> ELSE <<s>> \o Successors(inc_name_count(s), n - 1)

\* The lists of names in use: some of the successors of the name, in order.
NamesInUse(s) ==
    LET list == Successors(s, MaxCollisions)
        Sublists == {SelectSeq([i \in DOMAIN list |-> <<i, list[i]>>],
                               LAMBDA e : e[1] \in keep) : keep \in SUBSET DOMAIN list}
    IN {[i \in DOMAIN l |-> l[i][2]] : l \in Sublists}

\* A long list: the layers "a", "a [1]", "a [2]", ... of a viewer, as many as
\* the interpreter allows frames.
ManyNames(s) ==
    [i \in 1..RecursionLimit |->
        IF i = 1 THEN s ELSE s \o sep \o <<"[">> \o str(i - 1) \o <<"]">>]

InitUnique ==
    /\ original \in UNION {[1..k -> {"a", " ", "[", "]", "1"}] : k \in 0..MaxUniqueLen}
    /\ name = original
    /\ incs = 0
    /\ names \in NamesInUse(original) \cup (IF original = <<"a">> THEN {ManyNames(original)} ELSE {})
    /\ depth = 0
    /\ unique = None
    /\ NoMixinInUse
    /\ NoTransforms
    /\ NoOctree

\* The caller, itself in one frame, calls force_name_unique(name, names).
CallForceNameUnique ==
    /\ depth = 0
    /\ unique = None
    /\ depth' = 1
    /\ UNCHANGED <<original, name, incs, names, unique, mixinVars, transformVars, octreeVars>>

\* The innermost force_name_unique call runs. A name that is not in use is
\* returned, and every call below returns what it got (return
\* force_name_unique(...)). Otherwise it calls inc_name_count, which calls
\* _inc_name_count_sub through numbered_patt.sub: two more frames on top of
\* the caller's and the depth active ones; then it calls itself. The
\* interpreter raises RecursionError for a frame beyond its limit, and the
\* exception passes through every call.
FrameForceNameUnique ==
    /\ depth >= 1
    /\ unique = None
    /\ IF count(names, name) = 0
       THEN /\ unique' = [value |-> name, exc |-> "none"]
            /\ depth' = 0
            /\ UNCHANGED <<name, incs>>
       ELSE IF 1 + depth + 2 > RecursionLimit
            THEN /\ unique' = [value |-> None, exc |-> "RecursionError"]
                 /\ depth' = 0
                 /\ UNCHANGED <<name, incs>>
            ELSE /\ name' = inc_name_count(name)
                 /\ incs' = incs + 1
                 /\ depth' = depth + 1
                 /\ UNCHANGED unique
    /\ UNCHANGED <<original, names, mixinVars, transformVars, octreeVars>>

NextUnique == CallForceNameUnique \/ FrameForceNameUnique

SpecUnique == InitUnique /\ [][NextUnique]_vars

\* --------------------------------------------------------------- float64
\* numpy arithmetic on float64: a number is m * 2^e, with the natural number
\* m kept as its limbs of LimbBits bits, lowest first and the highest not 0
\* (<<>> is 0), because m * m does not fit a machine integer of the model.
\* A result is rounded to Float64Digits significant bits, ties to even.
\* The numbers are not negative, and their exponents far from the ends of
\* the float64 range.
Float64Digits == 53
LimbBits == 13

LimbAt(a, i) == IF i \in DOMAIN a THEN a[i] ELSE 0

Trim(a) ==
    IF \A i \in DOMAIN a : a[i] = 0 THEN <<>>
    ELSE SubSeq(a, 1, CHOOSE n \in DOMAIN a : a[n] # 0 /\ \A j \in (n + 1)..Len(a) : a[j] = 0)

\* The limbs of the number whose limb i is columns[i], before carrying.
RECURSIVE Carry(_, _, _)
Carry(columns, i, carried) ==
    IF i > Len(columns) THEN <<>>
    ELSE LET t == columns[i] + carried
         IN <<t % Pow(2, LimbBits)>> \o Carry(columns, i + 1, t \div Pow(2, LimbBits))

RECURSIVE IntLimbs(_)
IntLimbs(n) ==
    IF n = 0 THEN <<>> ELSE <<n % Pow(2, LimbBits)>> \o IntLimbs(n \div Pow(2, LimbBits))

BigAdd(a, b) ==
    LET n == (IF Len(a) > Len(b) THEN Len(a) ELSE Len(b)) + 1
    IN Trim(Carry([i \in 1..n |-> LimbAt(a, i) + LimbAt(b, i)], 1, 0))

RECURSIVE Column(_, _, _, _)
Column(a, b, k, i) ==
    IF i > Len(a) THEN 0
    ELSE LimbAt(a, i) * LimbAt(b, k - i + 1) + Column(a, b, k, i + 1)

BigMul(a, b) ==
    Trim(Carry([k \in 1..(Len(a) + Len(b)) |-> Column(a, b, k, 1)], 1, 0))

\* 2^k * a and floor(a / 2^k).
ShiftLeft(a, k) ==
    BigMul(a, [i \in 1..(k \div LimbBits + 1) |->
                  IF i = k \div LimbBits + 1 THEN Pow(2, k % LimbBits) ELSE 0])

ShiftRight(a, k) ==
    LET q == k \div LimbBits
        r == k % LimbBits
    IN Trim([i \in 1..(Len(a) - q) |->
                (LimbAt(a, i + q) \div Pow(2, r))
                  + (LimbAt(a, i + q + 1) % Pow(2, r)) * Pow(2, LimbBits - r)])

\* Bit i of a (bit 0 is the lowest) and the number of bits of a.
Bit(a, i) == (LimbAt(a, i \div LimbBits + 1) \div Pow(2, i % LimbBits)) % 2

BitLength(a) ==
    IF a = <<>> THEN 0
    ELSE (Len(a) - 1) * LimbBits
           + (CHOOSE n \in 1..LimbBits : Pow(2, n - 1) <= a[Len(a)] /\ a[Len(a)] < Pow(2, n))

\* The one way a number is kept: m odd, and 0 with exponent 0.
Canonical(m, e) ==
    IF m = <<>> THEN [m |-> <<>>, e |-> 0]
    ELSE LET z == CHOOSE k \in 0..(BitLength(m) - 1) :
                        Bit(m, k) = 1 /\ \A j \in 0..(k - 1) : Bit(m, j) = 0
         IN [m |-> ShiftRight(m, z), e |-> e + z]

\* The float64 nearest to m * 2^e.
float64(m, e) ==
    LET n == BitLength(m)
    IN IF n <= Float64Digits THEN Canonical(m, e)
       ELSE LET k == n - Float64Digits
                q == ShiftRight(m, k)
                up == /\ Bit(m, k - 1) = 1
                      /\ (\E j \in 0..(k - 2) : Bit(m, j) = 1) \/ Bit(q, 0) = 1
            IN Canonical(IF up THEN BigAdd(q, <<1>>) ELSE q, e + k)

\* x * y and x + y of float64 numbers.
Times(x, y) == float64(BigMul(x.m, y.m), x.e + y.e)

Plus(x, y) ==
    LET e == IF x.e < y.e THEN x.e ELSE y.e
    IN float64(BigAdd(ShiftLeft(x.m, x.e - e), ShiftLeft(y.m, y.e - e)), e)

\* The float64 of a small integer, and of the literals 0.5 and 0.1
\* (0.1 is 3602879701896397 * 2^-55).
Float(n) == Canonical(IntLimbs(n), 0)
Tenth == [m |-> <<3277, 1638, 4915, 6553>>, e |-> -55]

\* ------------------------------------------------------------ transforms
\* napari/layers/transforms.py. An array is the sequence of its elements,
\* each a float64; arrays of integers small enough to be exact as float64
\* give the same numbers in int64 as in float64.

\* a * b and a + b of two arrays, an array of one element broadcast to the
\* length of the other.
ArrayTimes(a, b) ==
    LET n == IF Len(a) > Len(b) THEN Len(a) ELSE Len(b)
    IN [i \in 1..n |-> Times(a[IF Len(a) = 1 THEN 1 ELSE i], b[IF Len(b) = 1 THEN 1 ELSE i])]

ArrayPlus(a, b) ==
    LET n == IF Len(a) > Len(b) THEN Len(a) ELSE Len(b)
    IN [i \in 1..n |-> Plus(a[IF Len(a) = 1 THEN 1 ELSE i], b[IF Len(b) = 1 THEN 1 ELSE i])]

\* ScaleTranslate.__init__, and the default ScaleTranslate().
ScaleTranslate(scale, translate) == [scale |-> scale, translate |-> translate]
DefaultScaleTranslate == ScaleTranslate(<<Float(1)>>, <<Float(0)>>)

\* np.concatenate(([fill] * (n - len(array)), array)).
Padded(fill, n, array) ==
    [i \in 1..(IF n > Len(array) THEN n - Len(array) ELSE 0) |-> fill] \o array

\* ScaleTranslate.__call__ on one coordinate vector.
ScaleTranslate_call(self, coords_) ==
    LET scale == Padded(Float(1), Len(coords_), self.scale)
        translate == Padded(Float(0), Len(coords_), self.translate)
    IN ArrayPlus(ArrayTimes(scale, coords_), translate)

\* compose with the translation of the other transform left unscaled.
ScaleTranslate_compose_unscaled(self, transform) ==
    ScaleTranslate(ArrayTimes(self.scale, transform.scale),
                   ArrayPlus(self.translate, transform.translate))

\* ScaleTranslate.compose.
ScaleTranslate_compose(self, transform) ==
    LET scale == ArrayTimes(self.scale, transform.scale)
        translate == ArrayPlus(self.translate, ArrayTimes(self.scale, transform.translate))
    IN ScaleTranslate(scale, translate)

\* tz.pipe(data, *funcs), the functions being the transforms' compose.
RECURSIVE pipe_composes(_, _)
pipe_composes(data, transforms) ==
    IF transforms = <<>> THEN data
    ELSE pipe_composes(ScaleTranslate_compose(Head(transforms), data), Tail(transforms))

\* tz.pipe with each function given its argument as self and the data as
\* the transform: data.compose(tf) in place of tf.compose(data).
RECURSIVE pipe_composes_swapped(_, _)
pipe_composes_swapped(data, transforms) ==
    IF transforms = <<>> THEN data
    ELSE pipe_composes_swapped(ScaleTranslate_compose(data, Head(transforms)), Tail(transforms))

\* TransformChain.__call__: tz.pipe(coords, *self) calls the first transform
\* on coords, the next one on its result, and so on.
RECURSIVE TransformChain_call(_, _)
TransformChain_call(self, coords_) ==
    IF self = <<>> THEN coords_
    ELSE TransformChain_call(Tail(self), ScaleTranslate_call(Head(self), coords_))

\* simplified composing the wrong way round.
simplified_swapped(self) ==
    IF Len(self) = 0 THEN None
    ELSE IF Len(self) = 1 THEN self[1]
    ELSE pipe_composes_swapped(self[1], Tail(self))

\* TransformChain.simplified.
simplified(self) ==
    IF Len(self) = 0 THEN None
    ELSE IF Len(self) = 1 THEN self[1]
    ELSE pipe_composes(self[1], Tail(self))

\* Nothing was read or called yet.
NoRead == [type |-> "NoRead"]

\* -------------------------------------------------------------- SpecChain
\* The transforms of the chains, in two dimensions, and the coordinates.
ChainTransforms ==
    {ScaleTranslate(scale, translate) :
        scale \in {<<Float(2), Float(3)>>, <<Float(10), Float(2)>>,
                   <<Tenth, [m |-> <<1>>, e |-> -1]>>},
        translate \in {<<Float(0), Float(0)>>, <<Float(1), Float(2)>>}}
ChainCoords == {<<Float(3), Float(1)>>, <<Float(0), Tenth>>}

\* TransformChain(transforms).
InitChain ==
    /\ chain \in UNION {[1..n -> ChainTransforms] : n \in 0..MaxChainLen}
    /\ coords \in ChainCoords
    /\ simple = NoRead
    /\ applied = [by_chain |-> NoRead, by_simplified |-> NoRead]
    /\ NoMixinInUse
    /\ NoNaming
    /\ NoOctree

\* chain.simplified.
Simplified ==
    /\ simple = NoRead
    /\ simple' = [value |-> simplified(chain)]
    /\ UNCHANGED <<chain, coords, applied, mixinVars, namingVars, octreeVars>>

\* chain(coords).
CallChain ==
    /\ applied.by_chain = NoRead
    /\ applied' = [applied EXCEPT !.by_chain = [value |-> TransformChain_call(chain, coords)]]
    /\ UNCHANGED <<chain, coords, simple, mixinVars, namingVars, octreeVars>>

\* chain.simplified(coords), of a chain that is not empty (None is not
\* callable).
CallSimplified ==
    /\ simple # NoRead
    /\ simple.value # None
    /\ applied.by_simplified = NoRead
    /\ applied' = [applied EXCEPT
                       !.by_simplified = [value |-> ScaleTranslate_call(simple.value, coords)]]
    /\ UNCHANGED <<chain, coords, simple, mixinVars, namingVars, octreeVars>>

NextChain == Simplified \/ CallChain \/ CallSimplified

SpecChain == InitChain /\ [][NextChain]_vars

\* ------------------------------------------------------------ SpecCompose
\* Three ScaleTranslate transforms a, b, c (kept in chain) and a coordinate
\* vector: the composites of them are built and a, a(b(.)) and a.compose(b)
\* are called.
InitCompose ==
    /\ chain \in [1..3 -> ChainTransforms]
    /\ coords \in ChainCoords
    /\ simple = [composite |-> NoRead, left_first |-> NoRead, right_first |-> NoRead,
                 identity_left |-> NoRead, identity_right |-> NoRead]
    /\ applied = [by_call |-> NoRead, by_nesting |-> NoRead, by_composite |-> NoRead]
    /\ NoMixinInUse
    /\ NoNaming
    /\ NoOctree

\* a.compose(b).
ComposeTwo ==
    /\ simple.composite = NoRead
    /\ simple' = [simple EXCEPT
                      !.composite = [value |-> ScaleTranslate_compose(chain[1], chain[2])]]
    /\ UNCHANGED <<chain, coords, applied, mixinVars, namingVars, octreeVars>>

\* a.compose(b).compose(c) and a.compose(b.compose(c)).
ComposeThree ==
    /\ simple.left_first = NoRead
    /\ simple' = [simple EXCEPT
                      !.left_first = [value |-> ScaleTranslate_compose(
                                          ScaleTranslate_compose(chain[1], chain[2]), chain[3])],
                      !.right_first = [value |-> ScaleTranslate_compose(
                                          chain[1], ScaleTranslate_compose(chain[2], chain[3]))]]
    /\ UNCHANGED <<chain, coords, applied, mixinVars, namingVars, octreeVars>>

\* ScaleTranslate().compose(a) and a.compose(ScaleTranslate()).
ComposeIdentity ==
    /\ simple.identity_left = NoRead
    /\ simple' = [simple EXCEPT
                      !.identity_left = [value |-> ScaleTranslate_compose(
                                             DefaultScaleTranslate, chain[1])],
                      !.identity_right = [value |-> ScaleTranslate_compose(
                                              chain[1], DefaultScaleTranslate)]]
    /\ UNCHANGED <<chain, coords, applied, mixinVars, namingVars, octreeVars>>

\* a(coords).
CallOne ==
    /\ applied.by_call = NoRead
    /\ applied' = [applied EXCEPT
                       !.by_call = [value |-> ScaleTranslate_call(chain[1], coords)]]
    /\ UNCHANGED <<chain, coords, simple, mixinVars, namingVars, octreeVars>>

\* a(b(coords)).
CallNested ==
    /\ applied.by_nesting = NoRead
    /\ applied' = [applied EXCEPT
                       !.by_nesting = [value |-> ScaleTranslate_call(
                                           chain[1], ScaleTranslate_call(chain[2], coords))]]
    /\ UNCHANGED <<chain, coords, simple, mixinVars, namingVars, octreeVars>>

\* a.compose(b)(coords).
CallComposite ==
    /\ simple.composite # NoRead
    /\ applied.by_composite = NoRead
    /\ applied' = [applied EXCEPT
                       !.by_composite = [value |-> ScaleTranslate_call(
                                             simple.composite.value, coords)]]
    /\ UNCHANGED <<chain, coords, simple, mixinVars, namingVars, octreeVars>>

NextCompose ==
    \/ ComposeTwo
    \/ ComposeThree
    \/ ComposeIdentity
    \/ CallOne
    \/ CallNested
    \/ CallComposite

SpecCompose == InitCompose /\ [][NextCompose]_vars

\* ------------------------------------------------- properties of get_chunk
\* The key of the last call, and whether it names a tile of the level.
CallKey == <<call.row, call.col>>
CallInLevel ==
    /\ 0 <= call.row /\ call.row < level.info.rows
    /\ 0 <= call.col /\ call.col < level.info.cols

\* C1: once get_chunk(r, c, create=True) has returned a chunk for (r, c), every
\* later get_chunk(r, c, create=True) and get_chunk(r, c, create=False) returns
\* that very same chunk object, never a newly constructed one.
C1_SameChunkEveryTime ==
    (call # NoCall /\ CallKey \in DOMAIN handed) =>
        /\ exc = "none"
        /\ ret = handed[CallKey]
        /\ heap[CallKey] = 1

\* A probe that follows the creation of its tile and gets the chunk handed out
\* then.
C1_Witness ==
    /\ call # NoCall
    /\ ~call.create
    /\ CallKey \in DOMAIN handed
    /\ ret = handed[CallKey]

\* C2: across every step, each key of the mapping is still a key after the
\* step and still maps to the same chunk object; no entry is removed or
\* replaced.
C2_MappingOnlyGrows ==
    [][\A k \in DOMAIN level._tiles :
          /\ k \in DOMAIN level'._tiles
          /\ level'._tiles[k] = level._tiles[k]]_vars

\* A creation that added a second entry to a mapping holding one.
C2_Witness ==
    /\ call # NoCall
    /\ call.create
    /\ ret # None
    /\ Cardinality(DOMAIN level._tiles) >= 2
    /\ \E k \in DOMAIN level._tiles : k # CallKey

\* C3: get_chunk(r, c, create=False) returns None for every (r, c), in the
\* level or not, that no earlier create=True call materialized, and returns
\* the cached chunk exactly when such a call succeeded earlier.
C3_ProbeReturnsWhatWasCreated ==
    (call # NoCall /\ ~call.create) =>
        /\ exc = "none"
        /\ (CallKey \notin DOMAIN handed => ret = None)
        /\ (CallKey \in DOMAIN handed =>
               ret = handed[CallKey] /\ ret = level._tiles[CallKey])
        /\ (ret # None <=> CallKey \in DOMAIN handed)

\* A probe of a tile of the level that was never created, after another tile
\* was, returns None.
C3_Witness ==
    /\ call # NoCall
    /\ ~call.create
    /\ CallInLevel
    /\ CallKey \notin DOMAIN handed
    /\ handed # <<>>
    /\ ret = None

\* C4: get_chunk(r, c, create=True) with r < 0, r >= rows, c < 0 or c >= cols
\* returns None, raises nothing and leaves the mapping (its key set, its size
\* and every stored chunk) as it was before the call.
C4_OutsideCreateChangesNothing ==
    [][(call'.create /\ (call'.row < 0 \/ call'.row >= level.info.rows
                         \/ call'.col < 0 \/ call'.col >= level.info.cols)) =>
          /\ ret' = None
          /\ exc' = "none"
          /\ DOMAIN level'._tiles = DOMAIN level._tiles
          /\ Cardinality(DOMAIN level'._tiles) = Cardinality(DOMAIN level._tiles)
          /\ \A k \in DOMAIN level._tiles : level'._tiles[k] = level._tiles[k]]_vars

\* A creating call for a row past the last one, on a mapping that holds chunks.
C4_Witness ==
    /\ call # NoCall
    /\ call.create
    /\ call.row >= level.info.rows
    /\ ret = None
    /\ DOMAIN level._tiles # {}

\* C5: every key of the mapping satisfies 0 <= row < rows and 0 <= col < cols
\* and the mapping never holds more than num_tiles entries; a slot only goes
\* from absent to materialized, by get_chunk(create=True) on that key, a key
\* of the level, and a materialized slot stays materialized.
C5_SlotStateMachine ==
    /\ [](/\ \A k \in DOMAIN level._tiles :
                /\ 0 <= k[1] /\ k[1] < level.info.rows
                /\ 0 <= k[2] /\ k[2] < level.info.cols
          /\ Cardinality(DOMAIN level._tiles) <= level.info.num_tiles)
    /\ [][/\ \A k \in DOMAIN level._tiles : k \in DOMAIN level'._tiles
          /\ \A k \in DOMAIN level'._tiles \ DOMAIN level._tiles :
                /\ call'.create
                /\ k = <<call'.row, call'.col>>
                /\ 0 <= k[1] /\ k[1] < level.info.rows
                /\ 0 <= k[2] /\ k[2] < level.info.cols]_vars

\* Every slot of a level of several tiles is materialized and a creating call
\* outside the level has just been refused.
C5_Witness ==
    /\ level.info.num_tiles >= 2
    /\ Cardinality(DOMAIN level._tiles) = level.info.num_tiles
    /\ call # NoCall
    /\ call.create
    /\ ~CallInLevel
    /\ ret = None

\* C6: get_chunk(r, c, create=True) returns a chunk iff (r, c) is inside
\* [0, rows) x [0, cols), and when it returns the chunk the key is already in
\* the mapping, bound to the returned object.
C6_CreateCompletes ==
    (call # NoCall /\ call.create) =>
        /\ exc = "none"
        /\ (ret # None <=> CallInLevel)
        /\ (ret # None =>
               /\ CallKey \in DOMAIN level._tiles
               /\ level._tiles[CallKey] = ret
               /\ ret.type = "OctreeChunk")

\* A creating call for the last tile of a level of several rows returned a
\* chunk that the mapping holds.
C6_Witness ==
    /\ call # NoCall
    /\ call.create
    /\ call.row = level.info.rows - 1
    /\ call.row >= 1
    /\ ret # None
    /\ level._tiles[CallKey] = ret

\* C7: get_chunk raises no exception for any row, col and create, given a 2-D
\* or 3-D data source; a create=False probe of a tile not yet created and a
\* create=True request for a tile outside the grid both give None.
C7_NeverRaises ==
    /\ exc = "none"
    /\ (call # NoCall /\ ~call.create /\ CallKey \notin DOMAIN level._tiles)
          => ret = None
    /\ (call # NoCall /\ call.create /\ ~CallInLevel) => ret = None

\* A request to create a tile with a negative row and a column past the grid,
\* on a 3-D source, returned None without raising.
C7_Witness ==
    /\ call # NoCall
    /\ call.create
    /\ call.row < 0
    /\ call.col >= level.info.cols
    /\ Len(level.data.shape) = 3
    /\ ret = None
    /\ exc = "none"

\* ------------------------------------------- properties of OctreeLevelInfo
\* C8: rows = ceil(base_height / (tile_size * 2^level_index)), cols likewise
\* from base_width, shape_in_tiles = [rows, cols], num_tiles = rows * cols;
\* base (512, 512), tile 256, level 1 gives rows = cols = 1 and num_tiles = 1.
C8_GridIsCeiling ==
    \A i \in 1..Len(infos) :
        LET f == infos[i]
            scaled == meta.tile_size * (2 ^ (i - 1))
        IN /\ f.level_index = i - 1
           /\ f.rows * scaled >= meta.base_shape[1]
           /\ (f.rows - 1) * scaled < meta.base_shape[1]
           /\ f.cols * scaled >= meta.base_shape[2]
           /\ (f.cols - 1) * scaled < meta.base_shape[2]
           /\ f.shape_in_tiles = <<f.rows, f.cols>>
           /\ f.num_tiles = f.rows * f.cols
           /\ (meta.base_shape = <<512, 512>> /\ meta.tile_size = 256 /\ i = 2)
                 => (f.rows = 1 /\ f.cols = 1 /\ f.num_tiles = 1)

\* The documented example, and a level whose last row of tiles is partial.
C8_Witness ==
    \/ /\ meta.base_shape = <<512, 512>>
       /\ meta.tile_size = 256
       /\ Len(infos) >= 2
       /\ infos[2].num_tiles = 1
    \/ /\ meta.base_shape = <<7, 250>>
       /\ meta.tile_size = 3
       /\ Len(infos) >= 1
       /\ infos[1].rows = 3

\* C9: scale = 2^level_index: 1 at level 0, at level k+1 exactly twice the
\* scale at level k, so strictly increasing in level_index.
C9_ScaleDoubles ==
    \A i \in 1..Len(infos) :
        /\ infos[i].level_index = i - 1
        /\ infos[i].scale = 2 ^ (i - 1)
        /\ (i = 1 => infos[i].scale = 1)
        /\ (i > 1 => /\ infos[i].scale = 2 * infos[i - 1].scale
                     /\ infos[i].scale > infos[i - 1].scale)

\* The infos of levels 0 to 3 are built and level 3 has scale 8.
C9_Witness ==
    /\ Len(infos) >= 4
    /\ infos[4].scale = 8

\* C10: image_shape = (floor(base_height / scale), floor(base_width / scale)),
\* as integers.
C10_ImageShapeIsFloor ==
    \A i \in 1..Len(infos) :
        LET f == infos[i]
            scale == 2 ^ (i - 1)
        IN /\ f.image_shape \in Nat \X Nat
           /\ f.image_shape[1] * scale <= meta.base_shape[1]
           /\ meta.base_shape[1] < (f.image_shape[1] + 1) * scale
           /\ f.image_shape[2] * scale <= meta.base_shape[2]
           /\ meta.base_shape[2] < (f.image_shape[2] + 1) * scale

\* A base shape that the scale does not divide: (7, 5) at level 2 is (1, 1).
C10_Witness ==
    /\ meta.base_shape = <<7, 5>>
    /\ Len(infos) >= 3
    /\ infos[3].image_shape = <<1, 1>>

\* --------------------------------------------- properties of a created chunk
\* The smaller of two integers.
Min(a, b) == IF a <= b THEN a ELSE b

\* An int that np.float32 holds exactly: a multiple of the spacing at its size.
IsFloat32(x) == x % Float32Spacing(x) = 0

\* p is x as np.float32 stores it: x itself when x is exact, else a float32
\* value at most half a spacing away.
StoredAsFloat32(p, x) ==
    /\ IsFloat32(p)
    /\ 2 * (IF p >= x THEN p - x ELSE x - p) <= Float32Spacing(x)
    /\ IsFloat32(x) => p = x

\* C11 as stated: every chunk stored at key (r, c) has position
\* (c*ts*s, r*ts*s) and scale vector (s, s).
C11_PositionExact ==
    \A k \in DOMAIN level._tiles :
        LET g == level._tiles[k].geom
            size == level.info.meta.tile_size * level.info.scale
        IN /\ g.pos = <<k[2] * size, k[1] * size>>
           /\ g.scale = <<level.info.scale, level.info.scale>>

\* C11, amended: every chunk stored at key (r, c) has position
\* (c*ts*s, r*ts*s) as float32 holds it, x from the column and y from the
\* row: equal to the products when they are below 2^24 (or otherwise exact in
\* float32), else the nearest float32 value; its scale vector is (s, s).
C11_PositionAsFloat32 ==
    \A k \in DOMAIN level._tiles :
        LET g == level._tiles[k].geom
            size == level.info.meta.tile_size * level.info.scale
        IN /\ StoredAsFloat32(g.pos[1], k[2] * size)
           /\ StoredAsFloat32(g.pos[2], k[1] * size)
           /\ (k[2] * size < Float32Exact => g.pos[1] = k[2] * size)
           /\ (k[1] * size < Float32Exact => g.pos[2] = k[1] * size)
           /\ g.scale = <<level.info.scale, level.info.scale>>

\* The chunk of column 2^24 + 1 of an image 2^24 + 2 pixels wide, tile size 1:
\* its x is stored as 2^24, the nearest float32 value.
C11_Witness ==
    /\ call # NoCall
    /\ ret # None
    /\ call.col = Float32Exact + 1
    /\ level.info.meta.tile_size = 1
    /\ level.info.level_index = 0
    /\ ret.geom.pos = <<Float32Exact, call.row>>
    /\ ret.geom.scale = <<1, 1>>

\* C12: the chunk stored under key (r, c) carries the location
\* (meta.layer_ref, slice_id, level_index, r, c) of its level.
C12_LocationMatchesKey ==
    \A k \in DOMAIN level._tiles :
        level._tiles[k].location =
            [layer_ref |-> level.info.meta.layer_ref,
             slice_id |-> level.slice_id,
             level_index |-> level.info.level_index,
             row |-> k[1], col |-> k[2]]

\* Two chunks of a level, one of them off the diagonal.
C12_Witness ==
    /\ Cardinality(DOMAIN level._tiles) >= 2
    /\ \E k \in DOMAIN level._tiles :
          /\ k[1] # k[2]
          /\ level._tiles[k].location.row = k[1]
          /\ level._tiles[k].location.col = k[2]

C14_TileSizeAtLevel0 ==
    LET ts == level.info.meta.tile_size
        H == level.info.meta.base_shape[1]
        W == level.info.meta.base_shape[2]
    IN (/\ call # NoCall
        /\ level.info.level_index = 0
        /\ level.data.shape[1] = H /\ level.data.shape[2] = W
        /\ 0 <= call.row /\ call.row * ts < H
        /\ 0 <= call.col /\ call.col * ts < W) =>
           /\ ret # None
           /\ ret.data.shape[1] = Min(ts, H - call.row * ts)
           /\ ret.data.shape[2] = Min(ts, W - call.col * ts)
           /\ ret.data.shape[1] >= 1
           /\ ret.data.shape[2] >= 1
           /\ (H = 300 /\ W = 300 /\ ts = 100) =>
                 /\ level.info.shape_in_tiles = <<3, 3>>
                 /\ call = [row |-> 2, col |-> 2, create |-> TRUE] =>
                       /\ ret.data.ranges[1] = <<200, 300>>
                       /\ ret.data.ranges[2] = <<200, 300>>
           /\ (H = 250 /\ W = 250 /\ ts = 100) =>
                 /\ level.info.shape_in_tiles = <<3, 3>>
                 /\ call = [row |-> 2, col |-> 2, create |-> TRUE] =>
                       /\ ret.data.shape[1] = 50
                       /\ ret.data.shape[2] = 50

\* Tile (2, 2) of the 250 x 250 image with tile size 100, cut to 50 x 50.
C14_Witness ==
    /\ level.info.meta.base_shape = <<250, 250>>
    /\ level.info.meta.tile_size = 100
    /\ level.info.level_index = 0
    /\ call = [row |-> 2, col |-> 2, create |-> TRUE]
    /\ ret # None
    /\ ret.data.shape[1] = 50

\* C15: with a 3-D data source the chunk's data keeps the last axis whole and
\* only the two leading axes are cut to the tile; with a 2-D source exactly
\* two slices are applied.
C15_ColorsKeptWhole ==
    (call # NoCall /\ CallInLevel) =>
        /\ exc = "none"
        /\ ret # None
        /\ Len(ret.data.shape) = Len(level.data.shape)
        /\ Len(level.data.shape) = 3 =>
              /\ ret.data.nslices = 3
              /\ ret.data.ranges[3] = <<0, level.data.shape[3]>>
              /\ ret.data.shape[3] = level.data.shape[3]
              /\ ret.data.shape[1] <= level.info.meta.tile_size
              /\ ret.data.shape[2] <= level.info.meta.tile_size
        /\ Len(level.data.shape) = 2 => ret.data.nslices = 2

\* A tile cut out of a 3-D source, narrower than the source, all colours kept.
C15_Witness ==
    /\ call # NoCall
    /\ ret # None
    /\ Len(level.data.shape) = 3
    /\ ret.data.shape[1] < level.data.shape[1]
    /\ ret.data.shape[3] = 3

\* ------------------------------------------------ properties of a pyramid
\* C18: rows and cols are at least 1 at every level and do not grow with
\* level_index; from the level L at which tile_size * 2^L covers the base
\* image on, rows = cols = 1 (num_tiles = 1), and every coarser level has one
\* tile too; every pyramid built here gets there within MaxInfoLevel levels.
C18_ReachesSingleTile ==
    /\ \A i \in 1..Len(infos) :
          /\ infos[i].rows >= 1
          /\ infos[i].cols >= 1
          /\ i > 1 =>
                /\ infos[i].rows <= infos[i - 1].rows
                /\ infos[i].cols <= infos[i - 1].cols
                /\ infos[i - 1].num_tiles = 1 => infos[i].num_tiles = 1
          /\ (/\ meta.tile_size * (2 ^ (i - 1)) >= meta.base_shape[1]
              /\ meta.tile_size * (2 ^ (i - 1)) >= meta.base_shape[2]) =>
                (infos[i].rows = 1 /\ infos[i].cols = 1 /\ infos[i].num_tiles = 1)
    /\ Len(infos) > MaxInfoLevel => infos[Len(infos)].num_tiles = 1

\* The 512 x 512 image with tile size 1: four tiles at level 8, one at level 9.
C18_Witness ==
    /\ meta.base_shape = <<512, 512>>
    /\ meta.tile_size = 1
    /\ Len(infos) >= 10
    /\ infos[9].num_tiles = 4
    /\ infos[10].num_tiles = 1

\* C19: within one pyramid (levels of distinct (slice_id, level_index), one
\* layer_ref) no two distinct cached chunks, of one level or of two, have
\* equal locations.
C19_LocationIdentifiesChunk ==
    \A i \in 1..Len(levels), j \in 1..Len(levels) :
        \A k \in DOMAIN levels[i]._tiles, l \in DOMAIN levels[j]._tiles :
            levels[i]._tiles[k].location = levels[j]._tiles[l].location
                => (i = j /\ k = l)

\* Two levels hold the chunk of tile (0, 0) and the finest level holds a
\* second chunk: equal rows and columns, different locations.
C19_Witness ==
    /\ Len(levels) >= 2
    /\ <<0, 0>> \in DOMAIN levels[1]._tiles
    /\ <<0, 0>> \in DOMAIN levels[2]._tiles
    /\ Cardinality(DOMAIN levels[1]._tiles) >= 2
    /\ levels[1]._tiles[<<0, 0>>].location # levels[2]._tiles[<<0, 0>>].location
    /\ (levels[1].slice_id # levels[2].slice_id
        \/ levels[1].info.level_index # levels[2].info.level_index)

\* C20: get_chunk on one level changes nothing but that level's mapping: not
\* the data source, the shared metadata or the info of any level, and not the
\* mapping of any other level.
C20_OnlyOwnMappingChanges ==
    [][/\ meta' = meta
       /\ Len(levels') = Len(levels)
       /\ \A j \in 1..Len(levels) :
             /\ levels'[j].data = levels[j].data
             /\ levels'[j].info = levels[j].info
             /\ levels'[j].info.meta = meta
             /\ levels'[j].slice_id = levels[j].slice_id
             /\ j # called' =>
                   /\ DOMAIN levels'[j]._tiles = DOMAIN levels[j]._tiles
                   /\ \A k \in DOMAIN levels[j]._tiles :
                         levels'[j]._tiles[k] = levels[j]._tiles[k]]_vars

\* A chunk was created on the coarsest level while the finest one, built on
\* the same metadata, held a chunk and kept it.
C20_Witness ==
    /\ Len(levels) >= 2
    /\ called = Len(levels)
    /\ call # NoCall
    /\ call.create
    /\ ret # None
    /\ DOMAIN levels[1]._tiles # {}
    /\ DOMAIN levels[1]._tiles # DOMAIN levels[called]._tiles
    /\ levels[1].info.meta = levels[called].info.meta

\* ------------------------------------------- properties of concurrent calls
\* The key of thread t's call.
FrameKey(t) == <<frame[t].row, frame[t].col>>

\* C16: when the get_chunk calls are serialized, no key gets a second chunk
\* constructed, no entry is replaced, and two callers of one key hold the same
\* chunk, the one the mapping holds. (Unserialized, the state of C16_Witness is
\* reachable: both threads miss, both construct, the later store replaces the
\* earlier one and the callers hold different chunks.)
C16_SerializedCallsAgree ==
    serialized =>
        /\ \A k \in DOMAIN heap : heap[k] <= 1
        /\ \A k \in DOMAIN tiles0 :
              k \in DOMAIN level._tiles /\ level._tiles[k] = tiles0[k]
        /\ \A t \in Threads :
              (pc[t] = "done" /\ frame[t].ret # None) =>
                  /\ FrameKey(t) \in DOMAIN level._tiles
                  /\ level._tiles[FrameKey(t)] = frame[t].ret
        /\ \A t \in Threads, u \in Threads :
              (/\ pc[t] = "done" /\ pc[u] = "done"
               /\ FrameKey(t) = FrameKey(u)
               /\ frame[t].ret # None /\ frame[u].ret # None) =>
                  frame[t].ret = frame[u].ret

\* Without the mutex: two create=True calls for one absent key of the level
\* are done, two chunks were constructed for it, the callers hold different
\* ones and the mapping holds only one of them.
C16_Witness ==
    /\ ~serialized
    /\ pc[1] = "done" /\ pc[2] = "done"
    /\ frame[1].create /\ frame[2].create
    /\ FrameKey(1) = FrameKey(2)
    /\ FrameKey(1) \notin DOMAIN tiles0
    /\ frame[1].ret # None /\ frame[2].ret # None
    /\ frame[1].ret # frame[2].ret
    /\ heap[FrameKey(1)] = 2
    /\ level._tiles[FrameKey(1)] \in {frame[1].ret, frame[2].ret}

\* C17: while the threads issue only create=False calls, under every
\* interleaving the mapping stays as it was and each finished call has
\* returned what it returns when run alone against that mapping.
C17_ProbesInterleaveSafely ==
    (\A t \in Threads : pc[t] = "idle" \/ ~frame[t].create) =>
        /\ DOMAIN level._tiles = DOMAIN tiles0
        /\ \A k \in DOMAIN tiles0 : level._tiles[k] = tiles0[k]
        /\ \A t \in Threads :
              pc[t] = "done" =>
                  /\ frame[t].exc = "none"
                  /\ frame[t].ret = IF FrameKey(t) \in DOMAIN tiles0
                                    THEN tiles0[FrameKey(t)] ELSE None

\* Two unserialized probes are done, one found a chunk and one did not, and
\* the mapping holds what it held.
C17_Witness ==
    /\ ~serialized
    /\ pc[1] = "done" /\ pc[2] = "done"
    /\ ~frame[1].create /\ ~frame[2].create
    /\ frame[1].ret # None
    /\ frame[2].ret = None
    /\ FrameKey(2) \notin DOMAIN tiles0
    /\ frame[2].row >= 0
    /\ DOMAIN level._tiles = DOMAIN tiles0

\* ------------------------------------------------- properties of log_levels
\* C21: a log_levels call leaves the mapping, info and data of every level
\* and every heap as they were (no chunk is constructed or stored); what it
\* emitted is one record per level passed, in list order, the record of the
\* level at list position i numbered start_level + i and carrying that
\* level's image_shape and shape_in_tiles.
C21_LogLevelsIsPureReport ==
    /\ [][logged' # logged => (levels' = levels /\ heaps' = heaps /\ meta' = meta)]_vars
    /\ [](logged # NoLog =>
            LET passed == SubSeq(levels, logged.first, Len(levels))
            IN /\ Len(logged.records) = Len(passed)
               /\ \A i \in 0..(Len(passed) - 1) :
                     LET record == logged.records[i + 1]
                         info == passed[i + 1].info
                     IN /\ record.args[1] = logged.start_level + i
                        /\ record.args[2].first = info.image_shape[1]
                        /\ record.args[2].second = info.image_shape[2]
                        /\ record.args[3].first = info.shape_in_tiles[1]
                        /\ record.args[3].second = info.shape_in_tiles[2])

\* The extra levels of a pyramid that holds a chunk were logged from
\* start_level 1 on: two records or more, the second numbered 2.
C21_Witness ==
    /\ logged # NoLog
    /\ logged.start_level = 1
    /\ Len(logged.records) >= 2
    /\ logged.records[2].args[1] = 2
    /\ \E i \in 1..Len(levels) : DOMAIN levels[i]._tiles # {}

\* ------------------------------------------ properties of the level geometry
\* C22: an OctreeLevelInfo built again, later, from a meta of equal base_shape
\* and tile_size and the same level_index has the scale, image_shape, rows,
\* cols, shape_in_tiles and num_tiles of the first one; building an info
\* changes neither the meta it was given nor an info built before.
C22_GeometryIsPureFunction ==
    /\ [](twin # NoTwin =>
            LET first == infos[twin.level_index + 1]
                second == twin.info
            IN /\ second.level_index = first.level_index
               /\ second.scale = first.scale
               /\ second.image_shape = first.image_shape
               /\ second.rows = first.rows
               /\ second.cols = first.cols
               /\ second.shape_in_tiles = first.shape_in_tiles
               /\ second.num_tiles = first.num_tiles
               /\ second.meta = twin.given)
    /\ [](\A i \in 1..Len(infos) : infos[i].meta = meta)
    /\ [][/\ meta' = meta
          /\ \A i \in 1..Len(infos) : infos'[i] = infos[i]]_vars

\* Level 1 of a 7 x 9 image with tile size 2 built twice, the second time for
\* another layer and after level 2 was built: 2 x 3 tiles both times.
C22_Witness ==
    /\ twin # NoTwin
    /\ meta.base_shape = <<7, 9>>
    /\ meta.tile_size = 2
    /\ twin.level_index = 1
    /\ twin.given.layer_ref = "other"
    /\ Len(infos) >= 3
    /\ twin.info.shape_in_tiles = <<2, 3>>
    /\ infos[2].shape_in_tiles = <<2, 3>>

\* --------------------------------------------- frame properties of get_chunk
\* C23: a get_chunk(r, c, create=False) call, for (r, c) inside the level or
\* not, cached or not, leaves the mapping's key set and every stored chunk as
\* they were, and constructs no chunk.
C23_ProbeHasNoEffect ==
    [][(~call'.create) =>
          /\ DOMAIN level'._tiles = DOMAIN level._tiles
          /\ \A k \in DOMAIN level._tiles : level'._tiles[k] = level._tiles[k]
          /\ heap' = heap
          /\ level'.info = level.info
          /\ level'.data = level.data]_vars

\* A probe outside the level, on a mapping holding two chunks or more, gave
\* None.
C23_Witness ==
    /\ call # NoCall
    /\ ~call.create
    /\ ~CallInLevel
    /\ Cardinality(DOMAIN level._tiles) >= 2
    /\ ret = None
    /\ exc = "none"

\* C24: one get_chunk(r, c, create=True) call makes the mapping one entry
\* larger when (r, c) is a tile of the level and was absent, and leaves its
\* size as it was otherwise; every key other than (r, c) is present after the
\* call iff it was before and is bound to the same chunk object.
C24_CreateAddsOnlyItsKey ==
    [][call'.create =>
          LET key == <<call'.row, call'.col>>
              inside == /\ 0 <= key[1] /\ key[1] < level.info.rows
                        /\ 0 <= key[2] /\ key[2] < level.info.cols
              absent == key \notin DOMAIN level._tiles
          IN /\ Cardinality(DOMAIN level'._tiles)
                   = Cardinality(DOMAIN level._tiles) + (IF inside /\ absent THEN 1 ELSE 0)
             /\ \A k \in (DOMAIN level._tiles \cup DOMAIN level'._tiles) \ {key} :
                   /\ k \in DOMAIN level._tiles
                   /\ k \in DOMAIN level'._tiles
                   /\ level'._tiles[k] = level._tiles[k]]_vars

\* A creating call for a tile of the level made the mapping's third entry.
C24_Witness ==
    /\ call # NoCall
    /\ call.create
    /\ CallInLevel
    /\ Cardinality(DOMAIN level._tiles) = 3
    /\ CallKey \in DOMAIN level._tiles
    /\ level._tiles[CallKey] = ret
    /\ heap[CallKey] = 1

\* ------------------------------------------- properties of a failed creation
\* Whether the level's data source raises when a tile is sliced out of it now.
SourceRaises == "raises" \in DOMAIN level.data \/ Len(level.data.shape) < 2

\* C25: a get_chunk(r, c, create=True) call in which slicing the data source
\* raises passes the exception on, inserts nothing and leaves the mapping as
\* it was; the mapping never holds anything but chunks handed out by a
\* successful creation, so a later get_chunk(r, c, create=True) runs the
\* creation again: it raises again while the source raises and creates,
\* stores and returns the chunk once it does not.
C25_FailedCreationLeavesNoEntry ==
    /\ [](\A k \in DOMAIN level._tiles :
             /\ level._tiles[k] # None
             /\ level._tiles[k].type = "OctreeChunk"
             /\ k \in DOMAIN handed
             /\ handed[k] = level._tiles[k])
    /\ [](exc # "none" => (ret = None /\ call.create /\ CallKey \notin DOMAIN level._tiles))
    /\ [][exc' # "none" =>
             /\ DOMAIN level'._tiles = DOMAIN level._tiles
             /\ \A k \in DOMAIN level._tiles : level'._tiles[k] = level._tiles[k]
             /\ heap' = heap]_vars
    /\ [][(/\ level'.data = level.data
           /\ call' # NoCall
           /\ call'.create
           /\ <<call'.row, call'.col>> \notin DOMAIN level._tiles
           /\ 0 <= call'.row /\ call'.row < level.info.rows
           /\ 0 <= call'.col /\ call'.col < level.info.cols) =>
             IF SourceRaises
             THEN exc' # "none" /\ <<call'.row, call'.col>> \in failed'
             ELSE /\ exc' = "none"
                  /\ ret' # None
                  /\ level'._tiles[<<call'.row, call'.col>>] = ret']_vars

\* The creation of a tile raised OSError once; asked for again after the
\* source recovered, the tile was created and stored.
C25_Witness ==
    /\ call # NoCall
    /\ call.create
    /\ CallKey \in failed
    /\ exc = "none"
    /\ ret # None
    /\ CallKey \in DOMAIN level._tiles
    /\ level._tiles[CallKey] = ret
    /\ heap[CallKey] = 1

\* --------------------------------------------- properties of creation order
\* The keys a level was asked to create, and what a chunk is apart from its
\* identity: data region, geometry and location.
AskedKeys(i) == {asked[i][n] : n \in 1..Len(asked[i])}
Content(chunk) == [data |-> chunk.data, geom |-> chunk.geom, location |-> chunk.location]

\* C26: two equal fresh levels that were asked, in any two orders, with any
\* repetitions and any create=False probes in between, to create the same set
\* of keys hold the same key set, the keys of that set that are tiles of the
\* level, and per key chunks of equal data region, geometry and location.
C26_CreationOrderIndependent ==
    \A i \in 1..Len(levels), j \in 1..Len(levels) :
        AskedKeys(i) = AskedKeys(j) =>
            /\ DOMAIN levels[i]._tiles = DOMAIN levels[j]._tiles
            /\ DOMAIN levels[i]._tiles =
                  {k \in AskedKeys(i) : /\ 0 <= k[1] /\ k[1] < levels[i].info.rows
                                        /\ 0 <= k[2] /\ k[2] < levels[i].info.cols}
            /\ \A k \in DOMAIN levels[i]._tiles :
                  Content(levels[i]._tiles[k]) = Content(levels[j]._tiles[k])

\* One level was asked for tile (0, 0), then (1, 0), then (0, 0) again, the
\* other for (1, 0), then (0, 0): both hold the two tiles.
C26_Witness ==
    /\ Len(levels) = 2
    /\ asked[1] = << <<0, 0>>, <<1, 0>>, <<0, 0>> >>
    /\ asked[2] = << <<1, 0>>, <<0, 0>> >>
    /\ DOMAIN levels[1]._tiles = {<<0, 0>>, <<1, 0>>}
    /\ DOMAIN levels[2]._tiles = {<<0, 0>>, <<1, 0>>}

\* ------------------------------------------ properties of adjacent levels
\* Whether n >= 1 is a power of two.
RECURSIVE IsPowerOfTwo(_)
IsPowerOfTwo(n) == n = 1 \/ (n % 2 = 0 /\ IsPowerOfTwo(n \div 2))

\* The grid relation between the last two levels built, fine and coarse:
\* rows and cols halve rounding up, every tile of the fine level has its
\* parent in the coarse level, every tile of the coarse level has its child
\* (2R, 2C) in the fine level. Every pair of adjacent levels is the last pair
\* built in some state.
QuadtreeGrid(fine, coarse) ==
    /\ coarse.level_index = fine.level_index + 1
    /\ coarse.rows = ceil(TrueDiv(fine.rows, 2))
    /\ coarse.cols = ceil(TrueDiv(fine.cols, 2))
    /\ \A r \in 0..(fine.rows - 1) : ~OutsideLevel(r \div 2, 0, coarse.rows, coarse.cols)
    /\ \A c \in 0..(fine.cols - 1) : ~OutsideLevel(0, c \div 2, coarse.rows, coarse.cols)
    /\ \A R \in 0..(coarse.rows - 1) : ~OutsideLevel(2 * R, 0, fine.rows, fine.cols)
    /\ \A C \in 0..(coarse.cols - 1) : ~OutsideLevel(0, 2 * C, fine.rows, fine.cols)

\* Some tile of the coarse level has a child (2R+1, *) or (*, 2C+1) outside
\* the fine level.
SomeChildOutside(fine, coarse) ==
    \/ \E R \in 0..(coarse.rows - 1) : OutsideLevel(2 * R + 1, 0, fine.rows, fine.cols)
    \/ \E C \in 0..(coarse.cols - 1) : OutsideLevel(0, 2 * C + 1, fine.rows, fine.cols)

FillsQuadrant(parent, child, i, j) ==
    LET side == meta.tile_size * levels[1].info.scale
    IN /\ meta.tile_size * levels[2].info.scale = 2 * side
       /\ child.geom.pos = <<parent.geom.pos[1] + j * side, parent.geom.pos[2] + i * side>>

\* C28 as stated: the position of tile (R, C) of level k+1 is the position of
\* tile (2R, 2C) of level k, and each child chunk (2R+i, 2C+j) fills quadrant
\* (i, j) of the parent's footprint, so the four child footprints make up the
\* parent's exactly.
C28_FootprintIsUnionOfChildren ==
    \A p \in DOMAIN levels[2]._tiles :
        \A i \in 0..1, j \in 0..1 :
            LET c == <<2 * p[1] + i, 2 * p[2] + j>>
            IN c \in DOMAIN levels[1]._tiles =>
                  FillsQuadrant(levels[2]._tiles[p], levels[1]._tiles[c], i, j)

\* C28: the position of tile (R, C) of level k+1 is the position of tile
\* (2R, 2C) of level k; when the parent's footprint lies below 2^24, where
\* float32 holds every integer, each child chunk (2R+i, 2C+j) fills quadrant
\* (i, j) of the parent's footprint; past 2^24 a child's position is the
\* float32 value nearest to its quadrant's corner.
C28_FootprintBelowFloat32Limit ==
    \A p \in DOMAIN levels[2]._tiles :
        LET parent == levels[2]._tiles[p]
            side == meta.tile_size * levels[1].info.scale
        IN /\ parent.location.level_index = levels[1].info.level_index + 1
           /\ \A i \in 0..1, j \in 0..1 :
                 LET c == <<2 * p[1] + i, 2 * p[2] + j>>
                 IN c \in DOMAIN levels[1]._tiles =>
                       LET child == levels[1]._tiles[c]
                       IN /\ (i = 0 /\ j = 0) => child.geom.pos = parent.geom.pos
                          /\ (/\ parent.geom.pos[1] + 2 * side <= Float32Exact
                              /\ parent.geom.pos[2] + 2 * side <= Float32Exact)
                                => FillsQuadrant(parent, child, i, j)
                          /\ StoredAsFloat32(child.geom.pos[1], c[2] * side)
                          /\ StoredAsFloat32(child.geom.pos[2], c[1] * side)

\* Tile (0, 1) of level 1 and its four children (0, 2), (0, 3), (1, 2), (1, 3)
\* of level 0 are created.
C28_Witness ==
    /\ Len(levels) = 2
    /\ levels[2].info.level_index = 1
    /\ DOMAIN levels[2]._tiles = {<<0, 1>>}
    /\ DOMAIN levels[1]._tiles = {<<0, 2>>, <<0, 3>>, <<1, 2>>, <<1, 3>>}
    /\ levels[2]._tiles[<<0, 1>>].geom.pos = levels[1]._tiles[<<0, 2>>].geom.pos
    /\ levels[2]._tiles[<<0, 1>>].geom.pos[1] > 0

\* The level-0 footprints of two chunks of level self, squares of side
\* tile_size * scale anchored at their positions, do not meet.
Disjoint(self, a, b) ==
    LET side == self.info.meta.tile_size * self.info.scale
        apart(u, v) == u + side <= v \/ v + side <= u
    IN apart(a.geom.pos[1], b.geom.pos[1]) \/ apart(a.geom.pos[2], b.geom.pos[2])

\* Every chunk of level self is anchored inside the base image.
AnchoredInside(self) ==
    \A k \in DOMAIN self._tiles :
        /\ 0 <= self._tiles[k].geom.pos[1]
        /\ self._tiles[k].geom.pos[1] < self.info.meta.base_shape[2]
        /\ 0 <= self._tiles[k].geom.pos[2]
        /\ self._tiles[k].geom.pos[2] < self.info.meta.base_shape[1]

\* The slots of level self, side by side from the origin, reach the far edges
\* of the base image.
SlotsCover(self) ==
    LET side == self.info.meta.tile_size * self.info.scale
    IN /\ self.info.rows * side >= self.info.meta.base_shape[1]
       /\ self.info.cols * side >= self.info.meta.base_shape[2]

\* C29 as stated: in each level every cached chunk is anchored inside the base
\* image, the footprints of two chunks with different keys are disjoint, and
\* the slots cover the base image.
C29_ChunksTileWithoutOverlap ==
    \A n \in 1..Len(levels) :
        /\ AnchoredInside(levels[n])
        /\ \A k \in DOMAIN levels[n]._tiles, l \in DOMAIN levels[n]._tiles :
              k # l => Disjoint(levels[n], levels[n]._tiles[k], levels[n]._tiles[l])
        /\ SlotsCover(levels[n])

\* C29: in each level of an image no larger than 2^24 in height and width
\* (float32 holds every coordinate) every cached chunk (r, c) is anchored at
\* (c, r) * tile_size * scale, inside the base image, and the footprints of
\* two chunks with different keys are disjoint; the slots cover the base
\* image whatever its size.
C29_ChunksTileBelowFloat32Limit ==
    \A n \in 1..Len(levels) :
        LET self == levels[n]
            side == self.info.meta.tile_size * self.info.scale
        IN /\ SlotsCover(self)
           /\ (/\ self.info.meta.base_shape[1] <= Float32Exact
               /\ self.info.meta.base_shape[2] <= Float32Exact) =>
                 /\ AnchoredInside(self)
                 /\ \A k \in DOMAIN self._tiles :
                       self._tiles[k].geom.pos = <<k[2] * side, k[1] * side>>
                 /\ \A k \in DOMAIN self._tiles, l \in DOMAIN self._tiles :
                       k # l => Disjoint(self, self._tiles[k], self._tiles[l])

\* Level 1 of an image, tiles of 2 x 2 level-0 pixels or more, holds the four
\* chunks of one family, side by side.
C29_Witness ==
    /\ Len(levels) = 2
    /\ levels[1].info.level_index = 1
    /\ Cardinality(DOMAIN levels[1]._tiles) = 4
    /\ \E k \in DOMAIN levels[1]._tiles :
          /\ levels[1]._tiles[k].geom.pos[1] > 0
          /\ levels[1]._tiles[k].geom.pos[2] > 0

\* --------------------------------------------- properties of the chunk data
\* The level belongs to a pyramid built up to its first single-tile level:
\* it is level 0 or the level below it has more than one tile.
LevelOfPyramid ==
    \/ level.info.level_index = 0
    \/ OctreeLevelInfo(level.info.meta, level.info.level_index - 1).num_tiles > 1

\* C30: on a level whose data is as large as its image_shape, every tile
\* (r, c) accepted by the bounds check has r * tile_size < image_shape[0] and
\* c * tile_size < image_shape[1], and its chunk holds at least one pixel.
\* Stated for the levels of a pyramid alone.
C30_ChunkHoldsPixel ==
    (/\ call # NoCall
     /\ CallInLevel
     /\ LevelOfPyramid
     /\ level.data.shape[1] = level.info.image_shape[1]
     /\ level.data.shape[2] = level.info.image_shape[2]) =>
        /\ call.row * level.info.meta.tile_size < level.info.image_shape[1]
        /\ call.col * level.info.meta.tile_size < level.info.image_shape[2]
        /\ ret # None
        /\ ret.data.shape[1] >= 1
        /\ ret.data.shape[2] >= 1

\* ------------------------------------------- properties of the pyramid levels
\* The infos built so far up to and including position i are levels of the
\* pyramid: every level before it has more than one tile.
InPyramid(i) == \A j \in 1..(i - 1) : infos[j].num_tiles > 1

\* C31: every level of a pyramid, from level 0 up to and including the first
\* level whose grid is a single tile, has an image_shape with both
\* dimensions >= 1.
C31_PyramidLevelsNonDegenerate ==
    \A i \in 1..Len(infos) :
        InPyramid(i) =>
            /\ infos[i].image_shape[1] >= 1
            /\ infos[i].image_shape[2] >= 1

\* ------------------------------------------- properties of the contrast limits
\* C32: after any sequence of contrast_limits and contrast_limits_range
\* assignments of numbers (lo <= hi) that starts from a numeric range (so
\* that none of them raised), the contrast limits lie inside the range:
\* contrast_limits_range[0] <= contrast_limits[0] and
\* contrast_limits[1] <= contrast_limits_range[1].
C32_LimitsInsideRange ==
    (/\ ~Raised
     /\ Comparable(mixin._contrast_limits_range)
     /\ Comparable(mixin._contrast_limits)) =>
        /\ mixin._contrast_limits_range[1].value <= mixin._contrast_limits[1].value
        /\ mixin._contrast_limits[2].value <= mixin._contrast_limits_range[2].value

\* ------------------------------------------------- properties of the names
\* The name ends in "[n]" with n an integer of k digits, the bracket starting
\* the string or following a whitespace character.
NumberedBy(s, k) ==
    /\ k >= 1
    /\ Len(s) >= k + 2
    /\ s[Len(s)] = "]"
    /\ \A i \in 1..k : IsDigit(s[Len(s) - i])
    /\ s[Len(s) - k - 1] = "["
    /\ Len(s) = k + 2 \/ IsSpace(s[Len(s) - k - 2])

Numbered(s) == \E k \in 1..Len(s) : NumberedBy(s, k)

\* The name with its count n replaced by n + 1.
Renumbered(s) ==
    LET k == CHOOSE k \in 1..Len(s) : NumberedBy(s, k)
        n == int_of_digits(SubSeq(s, Len(s) - k, Len(s) - 1))
    IN SubSeq(s, 1, Len(s) - k - 1) \o str(n + 1) \o <<"]">>

\* C34: inc_name_count appends " [1]" to a name that is not numbered, and
\* returns a name that ends in "[n]" with n replaced by n + 1 and the rest
\* unchanged; applied k times to a name that is not numbered it yields the
\* name followed by " [k]".
C34_IncNameCountNumbers ==
    /\ [](~Numbered(original) /\ incs >= 1 =>
             name = original \o <<" ", "[">> \o str(incs) \o <<"]">>)
    /\ [][incs' = incs + 1 =>
             name' = IF Numbered(name) THEN Renumbered(name)
                     ELSE name \o <<" ", "[", "1", "]">>]_vars

\* The first k successors of the name are in use, so that the call makes k
\* inc_name_count steps.
RECURSIVE IncTimes(_, _)
IncTimes(s, k) == IF k = 0 THEN s ELSE IncTimes(inc_name_count(s), k - 1)

\* C33: force_name_unique(name, names) terminates, within one call per name
\* in use, by returning a result: the result does not occur in names; it is
\* name unchanged when name does not occur in names; otherwise it is made of
\* name by repeated inc_name_count steps.
C33_ForceNameUniqueReturns ==
    /\ depth <= Len(names) + 1
    /\ unique # None =>
          /\ unique.exc = "none"
          /\ count(names, unique.value) = 0
          /\ count(names, original) = 0 => unique.value = original
          /\ unique.value = IncTimes(original, incs)

\* -------------------------------------------- properties of the transforms
\* Every element of the array is an integer (m is odd, so e >= 0 says so).
IntegerValued(array) == \A i \in DOMAIN array : array[i].e >= 0

\* The transforms of the chain and the coordinates hold integers only.
ChainOfIntegers ==
    /\ IntegerValued(coords)
    /\ \A i \in DOMAIN chain : IntegerValued(chain[i].scale) /\ IntegerValued(chain[i].translate)

\* The transforms applied in list order, the first element first.
RECURSIVE InListOrder(_, _)
InListOrder(transforms, x) ==
    IF transforms = <<>> THEN x
    ELSE ScaleTranslate_call(transforms[Len(transforms)],
                             InListOrder(SubSeq(transforms, 1, Len(transforms) - 1), x))

\* An empty chain simplifies to None and a chain of one transform to that
\* transform; chain(x) applies the transforms in list order.
SimplifiedOfShortChain ==
    /\ simple # NoRead /\ Len(chain) = 0 => simple.value = None
    /\ simple # NoRead /\ Len(chain) = 1 => simple.value = chain[1]
    /\ applied.by_chain # NoRead => applied.by_chain.value = InListOrder(chain, coords)

\* chain(x) and chain.simplified(x) were both computed, for a chain of two
\* or more transforms.
BothApplied ==
    /\ Len(chain) >= 2
    /\ applied.by_chain # NoRead
    /\ applied.by_simplified # NoRead

\* C35: for every chain of two or more ScaleTranslate transforms of equal
\* dimension and every coordinate vector x, chain.simplified(x) equals
\* chain(x), which applies the transforms in list order; a chain of length 1
\* simplifies to its only element and an empty chain to None.
C35_SimplifiedEqualsChain ==
    /\ SimplifiedOfShortChain
    /\ BothApplied => applied.by_simplified.value = applied.by_chain.value

\* C35, amended: the same, for transforms and coordinates that hold
\* integers, which float64 multiplies and adds exactly.
C35_SimplifiedEqualsChainOfIntegers ==
    /\ SimplifiedOfShortChain
    /\ BothApplied /\ ChainOfIntegers =>
          applied.by_simplified.value = applied.by_chain.value

\* A chain of three different integer transforms, two of them translating,
\* was simplified and both ways were called at a point that is not 0.
C35_Witness ==
    /\ Len(chain) = 3
    /\ ChainOfIntegers
    /\ chain[1] # chain[2] /\ chain[2] # chain[3]
    /\ chain[1].translate # <<Float(0), Float(0)>>
    /\ chain[2].translate # <<Float(0), Float(0)>>
    /\ coords # <<Float(0), Float(0)>>
    /\ applied.by_chain # NoRead
    /\ applied.by_simplified # NoRead
    /\ applied.by_simplified.value = applied.by_chain.value

\* ---------------------------------------------- properties of composition
\* The operands a, b, c and the coordinates hold integers only.
OperandsOfIntegers ==
    /\ IntegerValued(coords)
    /\ \A i \in 1..3 : IntegerValued(chain[i].scale) /\ IntegerValued(chain[i].translate)

\* a(x) scales first and translates then: a(x)[i] = scale[i] * x[i] +
\* translate[i].
ScalesBeforeTranslating ==
    applied.by_call # NoRead =>
        applied.by_call.value =
            [i \in 1..Len(coords) |->
                Plus(Times(chain[1].scale[i], coords[i]), chain[1].translate[i])]

\* Composing a with the identity ScaleTranslate, on either side, gives a.
IdentityIsNeutral ==
    simple.identity_left # NoRead =>
        /\ simple.identity_left.value = chain[1]
        /\ simple.identity_right.value = chain[1]

\* a.compose(b)(x) and a(b(x)) were both computed.
BothCalled ==
    /\ applied.by_composite # NoRead
    /\ applied.by_nesting # NoRead

\* C36: a(x) = scale * x + translate; for all ScaleTranslate a, b of equal
\* dimension and all coordinates x, a.compose(b)(x) equals a(b(x));
\* composition is associative, and composing with the identity
\* ScaleTranslate on either side returns a transform equal to the other
\* operand.
C36_ComposeIsComposition ==
    /\ ScalesBeforeTranslating
    /\ IdentityIsNeutral
    /\ BothCalled => applied.by_composite.value = applied.by_nesting.value
    /\ simple.left_first # NoRead => simple.left_first.value = simple.right_first.value

\* C36, amended: the same, with a.compose(b)(x) = a(b(x)) and associativity
\* for transforms and coordinates that hold integers, which float64
\* multiplies and adds exactly.
C36_ComposeIsCompositionOfIntegers ==
    /\ ScalesBeforeTranslating
    /\ IdentityIsNeutral
    /\ BothCalled /\ OperandsOfIntegers =>
          applied.by_composite.value = applied.by_nesting.value
    /\ simple.left_first # NoRead /\ OperandsOfIntegers =>
          simple.left_first.value = simple.right_first.value

\* Integer transforms a, b, c, where a scales, b and c translate and a # b,
\* were composed both ways and with the identity, and a, a(b(.)) and
\* a.compose(b) were called at a point that is not 0.
C36_Witness ==
    /\ Len(chain) = 3
    /\ OperandsOfIntegers
    /\ chain[1] # chain[2]
    /\ chain[2].translate # <<Float(0), Float(0)>>
    /\ chain[3].translate # <<Float(0), Float(0)>>
    /\ coords # <<Float(0), Float(0)>>
    /\ simple.composite # NoRead
    /\ simple.left_first # NoRead
    /\ simple.left_first.value = simple.right_first.value
    /\ simple.identity_left # NoRead
    /\ applied.by_call # NoRead
    /\ BothCalled
    /\ applied.by_composite.value = applied.by_nesting.value
    /\ applied.by_composite.value # applied.by_call.value

====
